---- MODULE Spec2Model ----
(***************************************************************************)
(* Model of github.com/emnl/goods, package redblacktree.                   *)
(*                                                                         *)
(* The heap of *node objects is an arena indexed by addresses 1..NumAddr,  *)
(* Nil (0) is the nil pointer.  The receiver T of the Go methods is the    *)
(* record T: its fields size and root, and one function per field of the   *)
(* node struct (elem, left, right, parent, red).  Every Go function of the *)
(* mutating path is one action; pc says which function body runs next and  *)
(* the locals of the active frames are the variables arg, oldsize, cur,    *)
(* dnode and child.                                                        *)
(***************************************************************************)
EXTENDS Integers, Sequences, FiniteSets, TLC

\* ---------------------------------------------------------------- bounds
\* Ordering keys the caller draws elements from: 1..MaxKey.
MaxKey == 8
\* The same, where the caller also varies the satellite data of an element.
MaxSatKey == 4
\* The same, where the caller also queries and traverses the tree.
MaxTravKey == 5
\* Longest LinkedList a sequence of calls builds, and the values it holds:
\* 1..MaxVal.
MaxLen == 3
MaxVal == 2
\* Goroutines that pop one Stack, and the calls of Pop each of them makes.
Poppers == 2
MaxPops == 2
\* Length of the longest list searched by Contains.
MaxLongLen == 100
\* Keys of the tree that is filled by a counting loop, 1..MaxDeepKey, and
\* the elements at most it may be short of when a Remove is called.
MaxDeepKey == 14
MaxDeepRemoves == 3

\* ------------------------------------------------------------- constants
Nil == 0
\* fastGet: "if L.size < 100" delegates to slowGet.
FastGetMin == 100
Keys == 1..MaxKey
\* One spare address: insert allocates newn before it looks for a duplicate.
\* MaxDeepKey is the largest of the bounds on keys.
NumAddr == MaxDeepKey + 1
Addr == 1..NumAddr

VARIABLES
    T,        \* the RedBlackTree and the nodes it owns
    pc,       \* the function body that runs next ("idle": no call in flight)
    op,       \* the public method of the current (or last) call
    arg,      \* its argument E
    oldsize,  \* local of Add / Remove
    cur,      \* argument of the running insertCaseN / deleteCaseN
    dnode,    \* local of delete
    child,    \* local of delete
    ret,      \* value returned by the last call: "nil" or "error"
    pre,      \* history: T when the current (or the last) call was made
    aset,     \* history: keys added and not since removed
    elems,    \* the elements the caller passes to Add and Remove (fixed by Init)
    g,        \* the producer goroutine of a traversal and the channel it feeds
    rot,      \* history: rotations done by the current (or the last) call
    visit,    \* history: the last visit of the fixup of delete, while Remove runs
    L,        \* a LinkedList (also the list inside a Stack or a Queue) and its nodes
    caller,   \* the goroutine that calls the methods of L
    workers,  \* the goroutines started on L, by the caller or by a method of L
    chans     \* the channels a method of L shares with the goroutines it starts

listvars == <<L, caller, workers, chans>>
vars == <<T, pc, op, arg, oldsize, cur, dnode, child, ret, pre, aset, elems, g, rot, visit,
          L, caller, workers, chans>>

\* An Elem is an orderable key with satellite data the order ignores.
Elem(k, v) == [key |-> k, val |-> v]
NoElem == [key |-> 0, val |-> "-"]

\* The user-supplied LessFunc (intLess of the tests, on the key).
less(a, b) == a.key < b.key

\* New(lf): RedBlackTree{lf, 0, nil}, no node allocated.
New ==
    [size   |-> 0,
     root   |-> Nil,
     used   |-> {},
     elem   |-> [a \in Addr |-> NoElem],
     left   |-> [a \in Addr |-> Nil],
     right  |-> [a \in Addr |-> Nil],
     parent |-> [a \in Addr |-> Nil],
     red    |-> [a \in Addr |-> FALSE]]

\* ------------------------------------------------------------ navigation
isRed(t, n) == IF n = Nil THEN FALSE ELSE t.red[n]

sibling(t, n) ==
    IF t.parent[n] = Nil THEN Nil
    ELSE IF t.left[t.parent[n]] = n THEN t.right[t.parent[n]]
    ELSE t.left[t.parent[n]]

\* Mutant: the uncle is never found.
uncle_absent(t, n) == Nil

uncle(t, n) == IF t.parent[n] = Nil THEN Nil ELSE sibling(t, t.parent[n])

grandparent(t, n) == IF t.parent[n] = Nil THEN Nil ELSE t.parent[t.parent[n]]

RECURSIVE findMax(_, _)
findMax(t, n) == IF t.right[n] # Nil THEN findMax(t, t.right[n]) ELSE n

\* Mutant: the walk stops one node early.
RECURSIVE findMin_stopsEarly(_, _)
findMin_stopsEarly(t, n) ==
    IF t.left[n] # Nil /\ t.left[t.left[n]] # Nil THEN findMin_stopsEarly(t, t.left[n]) ELSE n

RECURSIVE findMin(_, _)
findMin(t, n) == IF t.left[n] # Nil THEN findMin(t, t.left[n]) ELSE n

\* Mutant: the second comparison repeats the first.
RECURSIVE getFrom_sameTest(_, _, _)
getFrom_sameTest(t, r, E) ==
    IF r = Nil THEN Nil
    ELSE IF less(E, t.elem[r]) THEN getFrom_sameTest(t, t.left[r], E)
    ELSE IF less(E, t.elem[r]) THEN getFrom_sameTest(t, t.right[r], E)
    ELSE r

RECURSIVE getFrom(_, _, _)
getFrom(t, r, E) ==
    IF r = Nil THEN Nil
    ELSE IF less(E, t.elem[r]) THEN getFrom(t, t.left[r], E)
    ELSE IF less(t.elem[r], E) THEN getFrom(t, t.right[r], E)
    ELSE r

get(t, E) == getFrom(t, t.root, E)

Contains(t, E) == get(t, E) # Nil
Size(t) == t.size
Empty(t) == t.root = Nil

\* First / Last: nil (NoElem) on the empty tree.
First(t) == IF Empty(t) THEN NoElem ELSE t.elem[findMin(t, t.root)]
Last(t) == IF Empty(t) THEN NoElem ELSE t.elem[findMax(t, t.root)]

\* ------------------------------------------------------------- rotations
\* Mutant: the root is not re-pointed when the old node had no parent.
replaceNode_rootKept(t, oldn, newn) ==
    LET p  == t.parent[oldn]
        t1 == IF p = Nil THEN t
              ELSE IF oldn = t.left[p] THEN [t EXCEPT !.left[p] = newn]
              ELSE [t EXCEPT !.right[p] = newn]
    IN  IF newn # Nil THEN [t1 EXCEPT !.parent[newn] = p] ELSE t1

replaceNode(t, oldn, newn) ==
    LET p  == t.parent[oldn]
        t1 == IF p = Nil THEN [t EXCEPT !.root = newn]
              ELSE IF oldn = t.left[p] THEN [t EXCEPT !.left[p] = newn]
              ELSE [t EXCEPT !.right[p] = newn]
    IN  IF newn # Nil THEN [t1 EXCEPT !.parent[newn] = p] ELSE t1

\* Mutant: the subtree handed over from r to n keeps its old parent.
rotateLeft_handedOverKept(t, n) ==
    LET r  == t.right[n]
        t1 == replaceNode(t, n, r)
        t2 == [t1 EXCEPT !.right[n] = t1.left[r]]
        t4 == [t2 EXCEPT !.left[r] = n]
    IN  [t4 EXCEPT !.parent[n] = r]

rotateLeft(t, n) ==
    LET r  == t.right[n]
        t1 == replaceNode(t, n, r)
        t2 == [t1 EXCEPT !.right[n] = t1.left[r]]
        t3 == IF t2.left[r] # Nil THEN [t2 EXCEPT !.parent[t2.left[r]] = n] ELSE t2
        t4 == [t3 EXCEPT !.left[r] = n]
    IN  [t4 EXCEPT !.parent[n] = r]

\* Mutant: n keeps its right child, the subtree of r is not handed over.
rotateRight_mirrorLost(t, n) ==
    LET l  == t.left[n]
        t1 == replaceNode(t, n, l)
        t3 == IF t1.right[l] # Nil THEN [t1 EXCEPT !.parent[t1.right[l]] = n] ELSE t1
        t4 == [t3 EXCEPT !.right[l] = n]
    IN  [t4 EXCEPT !.parent[n] = l]

rotateRight(t, n) ==
    LET l  == t.left[n]
        t1 == replaceNode(t, n, l)
        t2 == [t1 EXCEPT !.left[n] = t1.right[l]]
        t3 == IF t2.right[l] # Nil THEN [t2 EXCEPT !.parent[t2.right[l]] = n] ELSE t2
        t4 == [t3 EXCEPT !.right[l] = n]
    IN  [t4 EXCEPT !.parent[n] = l]

\* --------------------------------------------------------------- the heap
\* &node{E, nil, nil, nil, true}: a fresh address holding a red node.
NewAddr(t) == CHOOSE a \in Addr \ t.used : \A b \in Addr \ t.used : a <= b

alloc(t, a, E) ==
    [t EXCEPT !.used = @ \cup {a}, !.elem[a] = E, !.left[a] = Nil,
              !.right[a] = Nil, !.parent[a] = Nil, !.red[a] = TRUE]

\* A node no pointer of the program reaches any more is reclaimed.
free(t, a) ==
    [t EXCEPT !.used = @ \ {a}, !.elem[a] = NoElem, !.left[a] = Nil,
              !.right[a] = Nil, !.parent[a] = Nil, !.red[a] = FALSE]

\* A Go program cannot observe the address of a node, only whether two
\* pointers are equal, so two heaps that differ by a renaming of addresses
\* are one program state.  Between calls the heap is kept in the
\* representative where the node holding key k lives at address k.
addrOf(t, n) == IF n = Nil THEN Nil ELSE t.elem[n].key

nodeAt(t, a) ==
    IF \E n \in t.used : t.elem[n].key = a
    THEN CHOOSE n \in t.used : t.elem[n].key = a
    ELSE Nil

relocate(t) ==
    [size   |-> t.size,
     root   |-> addrOf(t, t.root),
     used   |-> {addrOf(t, n) : n \in t.used},
     elem   |-> [a \in Addr |-> IF nodeAt(t, a) = Nil THEN NoElem ELSE t.elem[nodeAt(t, a)]],
     left   |-> [a \in Addr |-> IF nodeAt(t, a) = Nil THEN Nil ELSE addrOf(t, t.left[nodeAt(t, a)])],
     right  |-> [a \in Addr |-> IF nodeAt(t, a) = Nil THEN Nil ELSE addrOf(t, t.right[nodeAt(t, a)])],
     parent |-> [a \in Addr |-> IF nodeAt(t, a) = Nil THEN Nil ELSE addrOf(t, t.parent[nodeAt(t, a)])],
     red    |-> [a \in Addr |-> IF nodeAt(t, a) = Nil THEN FALSE ELSE t.red[nodeAt(t, a)]]]

\* ------------------------------------------------------------ linkedlist
\* linkedlist.New(): LinkedList{}, no node allocated.  The nodes live at
\* the addresses 1..Len(Value); next and prev are Nil or such an address.
NewList ==
    [size |-> 0, first |-> Nil, last |-> Nil,
     Value |-> <<>>, next |-> <<>>, prev |-> <<>>]

\* No call on the list is in flight.
NoCall == [pc |-> "idle", op |-> "none"]
NoChans == [found |-> <<>>, done |-> 0, c |-> 0]

\* No list is in use.
NoList ==
    /\ L = NewList
    /\ caller = NoCall
    /\ workers = <<>>
    /\ chans = NoChans

\* No traversal has been started (or its channel has been drained).
NoProducer ==
    [kind |-> "none", pc |-> "none", nodes |-> <<>>, cur |-> Nil, prev |-> Nil,
     ch |-> <<>>, cap |-> 0, at |-> New]

\* The next turn of the goroutine reads the tree (T.root, T.size, a link or
\* an element) unless all that is left for it is to leave its loop and close.
readsTree(p) == p.pc = "start" \/ p.cur # Nil \/ p.nodes # <<>>

\* The goroutine shares the tree with the caller and takes no lock.  Once
\* the caller enters Add or Remove while the goroutine still has the tree to
\* read, the goroutine is "stale": what its next turn reads is not defined,
\* and only the fact of that turn is recorded, "raced" when it is taken
\* while the mutation is in progress and "mixed" when taken after it.
undefined(p, how) ==
    [kind |-> p.kind, pc |-> how, nodes |-> <<>>, cur |-> Nil, prev |-> Nil,
     ch |-> <<>>, cap |-> 0, at |-> New]

\* What a call of Add or Remove makes of the goroutine: a channel that is
\* complete (closed, or with only the close left) is not followed further.
mutate(p) ==
    IF p.pc \in {"start", "loop"} /\ readsTree(p) THEN undefined(p, "stale")
    ELSE IF p.pc \in {"stale", "raced", "mixed"} THEN p
    ELSE NoProducer

\* No visit of the fixup of delete.  A visit is a call of deleteCase1 and
\* the case bodies it goes through on the same node: n is the node, nonroot
\* says that it had a parent, fired holds the case bodies that changed the
\* tree.
NoVisit == [n |-> Nil, nonroot |-> FALSE, fired |-> {}]

\* The case body c changes the tree in the current visit.
fire(c) == [visit EXCEPT !.fired = @ \cup {c}]

\* ------------------------------------------------------------------- Init
Init ==
    /\ T = New
    /\ pc = "idle"
    /\ op = "none"
    /\ arg = NoElem
    /\ oldsize = 0
    /\ cur = Nil
    /\ dnode = Nil
    /\ child = Nil
    /\ ret = "none"
    /\ pre = New
    /\ aset = {}
    /\ elems = {Elem(k, "a") : k \in Keys}
    /\ g = NoProducer
    /\ rot = 0
    /\ NoList
    /\ visit = NoVisit

locals == <<cur, dnode, child>>
call == <<op, arg, oldsize, pre, aset, elems>>

\* -------------------------------------------------------------------- Add
Add(E) ==
    /\ pc = "idle"
    /\ pc' = "insert"
    /\ op' = "Add"
    /\ arg' = E
    /\ oldsize' = T.size
    /\ pre' = T
    /\ aset' = aset \cup {E.key}
    /\ ret' = "none"
    /\ g' = mutate(g)
    /\ rot' = 0
    /\ visit' = NoVisit
    /\ UNCHANGED listvars
    /\ UNCHANGED <<T, locals, elems>>

\* Mutant: the two comparisons are exchanged.
RECURSIVE insertWalk_mirrored(_, _, _)
insertWalk_mirrored(t, n, E) ==
    IF less(t.elem[n], E) THEN
        IF t.left[n] = Nil THEN [n |-> n, side |-> "left"]
        ELSE insertWalk_mirrored(t, t.left[n], E)
    ELSE IF less(E, t.elem[n]) THEN
        IF t.right[n] = Nil THEN [n |-> n, side |-> "right"]
        ELSE insertWalk_mirrored(t, t.right[n], E)
    ELSE [n |-> n, side |-> "equal"]

\* Mutant: an equal element is sent to the right instead of stopping the walk.
RECURSIVE insertWalk_equalGoesRight(_, _, _)
insertWalk_equalGoesRight(t, n, E) ==
    IF less(E, t.elem[n]) THEN
        IF t.left[n] = Nil THEN [n |-> n, side |-> "left"]
        ELSE insertWalk_equalGoesRight(t, t.left[n], E)
    ELSE
        IF t.right[n] = Nil THEN [n |-> n, side |-> "right"]
        ELSE insertWalk_equalGoesRight(t, t.right[n], E)

\* The descent of insert: the node the walk stops at and why.
RECURSIVE insertWalk(_, _, _)
insertWalk(t, n, E) ==
    IF less(E, t.elem[n]) THEN
        IF t.left[n] = Nil THEN [n |-> n, side |-> "left"]
        ELSE insertWalk(t, t.left[n], E)
    ELSE IF less(t.elem[n], E) THEN
        IF t.right[n] = Nil THEN [n |-> n, side |-> "right"]
        ELSE insertWalk(t, t.right[n], E)
    ELSE [n |-> n, side |-> "equal"]

insert ==
    /\ pc = "insert"
    /\ LET newn == NewAddr(T)
           t0   == alloc(T, newn, arg)
       IN  IF T.root = Nil THEN
               /\ T' = [t0 EXCEPT !.root = newn, !.size = @ + 1]
               /\ cur' = newn
               /\ pc' = "insertCase1"
           ELSE
               LET w == insertWalk(t0, t0.root, arg) IN
               IF w.side = "equal" THEN
                   \* n.elem = newn.elem; return (newn is dropped)
                   /\ T' = free([t0 EXCEPT !.elem[w.n] = t0.elem[newn]], newn)
                   /\ cur' = Nil
                   /\ pc' = "AddReturn"
               ELSE
                   /\ T' = LET t1 == IF w.side = "left"
                                     THEN [t0 EXCEPT !.left[w.n] = newn]
                                     ELSE [t0 EXCEPT !.right[w.n] = newn]
                           IN  [t1 EXCEPT !.parent[newn] = w.n, !.size = @ + 1]
                   /\ cur' = newn
                   /\ pc' = "insertCase1"
    /\ UNCHANGED <<call, dnode, child, ret>>
    /\ UNCHANGED <<g, rot, visit, listvars>>

\* Mutant: the root is left red.
insertCase1_rootStaysRed ==
    /\ pc = "insertCase1"
    /\ IF T.parent[cur] = Nil THEN
           /\ pc' = "AddReturn"
           /\ cur' = Nil
           /\ T' = T
       ELSE
           /\ pc' = "insertCase2"
           /\ UNCHANGED <<T, cur>>
    /\ UNCHANGED <<call, dnode, child, ret>>
    /\ UNCHANGED <<g, rot, visit, listvars>>

insertCase1 ==
    /\ pc = "insertCase1"
    /\ IF T.parent[cur] = Nil THEN
           /\ T' = [T EXCEPT !.red[cur] = FALSE]
           /\ pc' = "AddReturn"
           /\ cur' = Nil
       ELSE
           /\ pc' = "insertCase2"
           /\ UNCHANGED <<T, cur>>
    /\ UNCHANGED <<call, dnode, child, ret>>
    /\ UNCHANGED <<g, rot, visit, listvars>>

\* Mutant: the tree is taken to be valid whatever the parent's colour.
insertCase2_alwaysValid ==
    /\ pc = "insertCase2"
    /\ pc' = "AddReturn"
    /\ cur' = Nil
    /\ UNCHANGED <<T, call, dnode, child, ret>>
    /\ UNCHANGED <<g, rot, visit, listvars>>

\* Mutant: the fix-up goes on whatever the parent's colour.
insertCase2_neverValid ==
    /\ pc = "insertCase2"
    /\ pc' = "insertCase3"
    /\ cur' = cur
    /\ UNCHANGED <<T, call, dnode, child, ret>>
    /\ UNCHANGED <<g, rot, visit, listvars>>

insertCase2 ==
    /\ pc = "insertCase2"
    /\ IF isRed(T, T.parent[cur]) = FALSE THEN
           /\ pc' = "AddReturn"
           /\ cur' = Nil
       ELSE
           /\ pc' = "insertCase3"
           /\ cur' = cur
    /\ UNCHANGED <<T, call, dnode, child, ret>>
    /\ UNCHANGED <<g, rot, visit, listvars>>

\* Mutant: after the repaint the fix-up goes on at the parent.
insertCase3_toParent ==
    /\ pc = "insertCase3"
    /\ IF uncle(T, cur) # Nil /\ T.red[uncle(T, cur)] THEN
           /\ T' = [T EXCEPT !.red[T.parent[cur]] = FALSE,
                             !.red[uncle(T, cur)] = FALSE,
                             !.red[grandparent(T, cur)] = TRUE]
           /\ cur' = T.parent[cur]
           /\ pc' = "insertCase1"
       ELSE
           /\ pc' = "insertCase4"
           /\ UNCHANGED <<T, cur>>
    /\ UNCHANGED <<call, dnode, child, ret>>
    /\ UNCHANGED <<g, rot, visit, listvars>>

insertCase3 ==
    /\ pc = "insertCase3"
    /\ IF uncle(T, cur) # Nil /\ T.red[uncle(T, cur)] THEN
           /\ T' = [T EXCEPT !.red[T.parent[cur]] = FALSE,
                             !.red[uncle(T, cur)] = FALSE,
                             !.red[grandparent(T, cur)] = TRUE]
           /\ cur' = grandparent(T, cur)
           /\ pc' = "insertCase1"
       ELSE
           /\ pc' = "insertCase4"
           /\ UNCHANGED <<T, cur>>
    /\ UNCHANGED <<call, dnode, child, ret>>
    /\ UNCHANGED <<g, rot, visit, listvars>>

insertCase4 ==
    /\ pc = "insertCase4"
    /\ IF cur = T.right[T.parent[cur]] /\ T.parent[cur] = T.left[grandparent(T, cur)] THEN
           /\ T' = rotateLeft(T, T.parent[cur])
           /\ cur' = T'.left[cur]
           /\ rot' = rot + 1
       ELSE IF cur = T.left[T.parent[cur]] /\ T.parent[cur] = T.right[grandparent(T, cur)] THEN
           /\ T' = rotateRight(T, T.parent[cur])
           /\ cur' = T'.right[cur]
           /\ rot' = rot + 1
       ELSE
           UNCHANGED <<T, cur, rot>>
    /\ pc' = "insertCase5"
    /\ UNCHANGED <<call, dnode, child, ret>>
    /\ UNCHANGED <<g, visit, listvars>>

\* Mutant: the grandparent is not painted red.
insertCase5_grandparentKept ==
    /\ pc = "insertCase5"
    /\ LET t2 == [T EXCEPT !.red[T.parent[cur]] = FALSE]
       IN  IF cur = t2.left[t2.parent[cur]]
           THEN T' = rotateRight(t2, grandparent(t2, cur))
           ELSE T' = rotateLeft(t2, grandparent(t2, cur))
    /\ pc' = "AddReturn"
    /\ cur' = Nil
    /\ UNCHANGED <<call, dnode, child, ret>>
    /\ rot' = rot + 1
    /\ UNCHANGED <<g, visit, listvars>>

\* Mutant: after its rotation the fix-up goes on at the parent.
insertCase5_goesOn ==
    /\ pc = "insertCase5"
    /\ LET t1 == [T EXCEPT !.red[T.parent[cur]] = FALSE]
           t2 == [t1 EXCEPT !.red[grandparent(t1, cur)] = TRUE]
       IN  IF cur = t2.left[t2.parent[cur]]
           THEN T' = rotateRight(t2, grandparent(t2, cur))
           ELSE T' = rotateLeft(t2, grandparent(t2, cur))
    /\ pc' = "insertCase1"
    /\ cur' = T.parent[cur]
    /\ UNCHANGED <<call, dnode, child, ret>>
    /\ rot' = rot + 1
    /\ UNCHANGED <<g, visit, listvars>>

insertCase5 ==
    /\ pc = "insertCase5"
    /\ LET t1 == [T EXCEPT !.red[T.parent[cur]] = FALSE]
           t2 == [t1 EXCEPT !.red[grandparent(t1, cur)] = TRUE]
       IN  IF cur = t2.left[t2.parent[cur]]
           THEN T' = rotateRight(t2, grandparent(t2, cur))
           ELSE T' = rotateLeft(t2, grandparent(t2, cur))
    /\ pc' = "AddReturn"
    /\ cur' = Nil
    /\ UNCHANGED <<call, dnode, child, ret>>
    /\ rot' = rot + 1
    /\ UNCHANGED <<g, visit, listvars>>

\* Mutant: the size test is inverted.
AddReturn_inverted ==
    /\ pc = "AddReturn"
    /\ ret' = IF oldsize # T.size THEN "error" ELSE "nil"
    /\ pc' = "idle"
    /\ T' = relocate(T)
    /\ UNCHANGED <<call, locals>>
    /\ UNCHANGED <<g, rot, visit, listvars>>

\* Add, after insert has returned.
AddReturn ==
    /\ pc = "AddReturn"
    /\ ret' = IF oldsize = T.size THEN "error" ELSE "nil"
    /\ pc' = "idle"
    /\ T' = relocate(T)
    /\ UNCHANGED <<call, locals>>
    /\ UNCHANGED <<g, rot, visit, listvars>>

\* ----------------------------------------------------------------- Remove
Remove(E) ==
    /\ pc = "idle"
    /\ pc' = "delete"
    /\ op' = "Remove"
    /\ arg' = E
    /\ oldsize' = T.size
    /\ pre' = T
    /\ aset' = aset \ {E.key}
    /\ ret' = "none"
    /\ g' = mutate(g)
    /\ rot' = 0
    /\ visit' = NoVisit
    /\ UNCHANGED listvars
    /\ UNCHANGED <<T, locals, elems>>

\* Mutant: size is decremented before the element is looked up.
delete_countsAnyway ==
    /\ pc = "delete"
    /\ LET found == get(T, arg) IN
       IF Empty(T) \/ found = Nil THEN
           /\ pc' = "RemoveReturn"
           /\ T' = [T EXCEPT !.size = @ - 1]
           /\ UNCHANGED locals
       ELSE
           LET two == T.left[found] # Nil /\ T.right[found] # Nil
               pred == findMax(T, T.left[found])
               t1 == IF two THEN [T EXCEPT !.elem[found] = T.elem[pred]] ELSE T
               d  == IF two THEN pred ELSE found
               c  == IF t1.right[d] = Nil THEN t1.left[d] ELSE t1.right[d]
           IN  /\ dnode' = d
               /\ child' = c
               /\ IF ~isRed(t1, d) THEN
                      /\ T' = [t1 EXCEPT !.red[d] = isRed(t1, c)]
                      /\ cur' = d
                      /\ pc' = "deleteCase1"
                  ELSE
                      /\ T' = t1
                      /\ cur' = Nil
                      /\ pc' = "deleteReplace"
    /\ UNCHANGED <<call, ret>>
    /\ UNCHANGED <<g, rot, visit, listvars>>

\* Mutant: the predecessor's element is not copied into the two-child node.
delete_noCopy ==
    /\ pc = "delete"
    /\ LET found == get(T, arg) IN
       IF Empty(T) \/ found = Nil THEN
           /\ pc' = "RemoveReturn"
           /\ UNCHANGED <<T, locals>>
       ELSE
           LET two == T.left[found] # Nil /\ T.right[found] # Nil
               pred == findMax(T, T.left[found])
               t1 == T
               d  == IF two THEN pred ELSE found
               c  == IF t1.right[d] = Nil THEN t1.left[d] ELSE t1.right[d]
           IN  /\ dnode' = d
               /\ child' = c
               /\ IF ~isRed(t1, d) THEN
                      /\ T' = [t1 EXCEPT !.red[d] = isRed(t1, c)]
                      /\ cur' = d
                      /\ pc' = "deleteCase1"
                  ELSE
                      /\ T' = t1
                      /\ cur' = Nil
                      /\ pc' = "deleteReplace"
    /\ UNCHANGED <<call, ret>>
    /\ UNCHANGED <<g, rot, visit, listvars>>

\* Mutant: dnode is replaced by its child before the fixup runs.
delete_replacesFirst ==
    /\ pc = "delete"
    /\ LET found == get(T, arg) IN
       IF Empty(T) \/ found = Nil THEN
           /\ pc' = "RemoveReturn"
           /\ UNCHANGED <<T, locals>>
       ELSE
           LET two == T.left[found] # Nil /\ T.right[found] # Nil
               pred == findMax(T, T.left[found])
               t1 == IF two THEN [T EXCEPT !.elem[found] = T.elem[pred]] ELSE T
               d  == IF two THEN pred ELSE found
               c  == IF t1.right[d] = Nil THEN t1.left[d] ELSE t1.right[d]
           IN  /\ dnode' = d
               /\ child' = c
               /\ IF ~isRed(t1, d) THEN
                      /\ T' = replaceNode([t1 EXCEPT !.red[d] = isRed(t1, c)], d, c)
                      /\ cur' = d
                      /\ pc' = "deleteCase1"
                  ELSE
                      /\ T' = t1
                      /\ cur' = Nil
                      /\ pc' = "deleteReplace"
    /\ UNCHANGED <<call, ret>>
    /\ UNCHANGED <<g, rot, visit, listvars>>

\* delete, up to the call of deleteCase1 (or to replaceNode when dnode is red).
delete ==
    /\ pc = "delete"
    /\ LET found == get(T, arg) IN
       IF Empty(T) \/ found = Nil THEN
           /\ pc' = "RemoveReturn"
           /\ UNCHANGED <<T, locals>>
       ELSE
           LET two == T.left[found] # Nil /\ T.right[found] # Nil
               pred == findMax(T, T.left[found])
               t1 == IF two THEN [T EXCEPT !.elem[found] = T.elem[pred]] ELSE T
               d  == IF two THEN pred ELSE found
               c  == IF t1.right[d] = Nil THEN t1.left[d] ELSE t1.right[d]
           IN  /\ dnode' = d
               /\ child' = c
               /\ IF ~isRed(t1, d) THEN
                      /\ T' = [t1 EXCEPT !.red[d] = isRed(t1, c)]
                      /\ cur' = d
                      /\ pc' = "deleteCase1"
                  ELSE
                      /\ T' = t1
                      /\ cur' = Nil
                      /\ pc' = "deleteReplace"
    /\ UNCHANGED <<call, ret>>
    /\ UNCHANGED <<g, rot, visit, listvars>>

deleteCase1 ==
    /\ pc = "deleteCase1"
    /\ IF T.parent[cur] = Nil THEN
           /\ pc' = "deleteReplace"
           /\ cur' = Nil
       ELSE
           /\ pc' = "deleteCase2"
           /\ cur' = cur
    /\ visit' = [n |-> cur, nonroot |-> T.parent[cur] # Nil, fired |-> {}]
    /\ UNCHANGED <<T, call, dnode, child, ret>>
    /\ UNCHANGED <<g, rot, listvars>>

\* Mutant: a red sibling is repainted with the parent, without the rotation.
deleteCase2_noRotation ==
    /\ pc = "deleteCase2"
    /\ IF isRed(T, sibling(T, cur)) THEN
           LET t1 == [T EXCEPT !.red[T.parent[cur]] = TRUE]
               t2 == [t1 EXCEPT !.red[sibling(t1, cur)] = FALSE]
           IN  T' = t2 /\ rot' = rot /\ visit' = fire("deleteCase2")
       ELSE
           UNCHANGED <<T, rot, visit>>
    /\ pc' = "deleteCase3"
    /\ UNCHANGED <<call, locals, ret>>
    /\ UNCHANGED <<g, listvars>>

deleteCase2 ==
    /\ pc = "deleteCase2"
    /\ IF isRed(T, sibling(T, cur)) THEN
           LET t1 == [T EXCEPT !.red[T.parent[cur]] = TRUE]
               t2 == [t1 EXCEPT !.red[sibling(t1, cur)] = FALSE]
           IN  /\ IF cur = t2.left[t2.parent[cur]]
                  THEN T' = rotateLeft(t2, t2.parent[cur]) /\ rot' = rot + 1
                  ELSE T' = rotateRight(t2, t2.parent[cur]) /\ rot' = rot + 1
               /\ visit' = fire("deleteCase2")
       ELSE
           UNCHANGED <<T, rot, visit>>
    /\ pc' = "deleteCase3"
    /\ UNCHANGED <<call, locals, ret>>
    /\ UNCHANGED <<g, listvars>>

\* Mutant: the sibling is not repainted before moving up.
deleteCase3_noRepaint ==
    /\ pc = "deleteCase3"
    /\ IF /\ isRed(T, T.parent[cur]) = FALSE
          /\ isRed(T, sibling(T, cur)) = FALSE
          /\ isRed(T, T.left[sibling(T, cur)]) = FALSE
          /\ isRed(T, T.right[sibling(T, cur)]) = FALSE
       THEN
           /\ T' = T
           /\ cur' = T.parent[cur]
           /\ pc' = "deleteCase1"
           /\ visit' = fire("deleteCase3")
       ELSE
           /\ pc' = "deleteCase4"
           /\ UNCHANGED <<T, cur, visit>>
    /\ UNCHANGED <<call, dnode, child, ret>>
    /\ UNCHANGED <<g, rot, listvars>>

\* Mutant: the fixup is entered again on the node itself, not on its parent.
deleteCase3_sameNode ==
    /\ pc = "deleteCase3"
    /\ IF /\ isRed(T, T.parent[cur]) = FALSE
          /\ isRed(T, sibling(T, cur)) = FALSE
          /\ isRed(T, T.left[sibling(T, cur)]) = FALSE
          /\ isRed(T, T.right[sibling(T, cur)]) = FALSE
       THEN
           /\ T' = [T EXCEPT !.red[sibling(T, cur)] = TRUE]
           /\ cur' = cur
           /\ pc' = "deleteCase1"
           /\ visit' = fire("deleteCase3")
       ELSE
           /\ pc' = "deleteCase4"
           /\ UNCHANGED <<T, cur, visit>>
    /\ UNCHANGED <<call, dnode, child, ret>>
    /\ UNCHANGED <<g, rot, listvars>>

\* Mutant: the fixup moves up whatever the colour of the parent.
deleteCase3_parentAny ==
    /\ pc = "deleteCase3"
    /\ IF /\ isRed(T, sibling(T, cur)) = FALSE
          /\ isRed(T, T.left[sibling(T, cur)]) = FALSE
          /\ isRed(T, T.right[sibling(T, cur)]) = FALSE
       THEN
           /\ T' = [T EXCEPT !.red[sibling(T, cur)] = TRUE]
           /\ cur' = T.parent[cur]
           /\ pc' = "deleteCase1"
           /\ visit' = fire("deleteCase3")
       ELSE
           /\ pc' = "deleteCase4"
           /\ UNCHANGED <<T, cur, visit>>
    /\ UNCHANGED <<call, dnode, child, ret>>
    /\ UNCHANGED <<g, rot, listvars>>

deleteCase3 ==
    /\ pc = "deleteCase3"
    /\ IF /\ isRed(T, T.parent[cur]) = FALSE
          /\ isRed(T, sibling(T, cur)) = FALSE
          /\ isRed(T, T.left[sibling(T, cur)]) = FALSE
          /\ isRed(T, T.right[sibling(T, cur)]) = FALSE
       THEN
           /\ T' = [T EXCEPT !.red[sibling(T, cur)] = TRUE]
           /\ cur' = T.parent[cur]
           /\ pc' = "deleteCase1"
           /\ visit' = fire("deleteCase3")
       ELSE
           /\ pc' = "deleteCase4"
           /\ UNCHANGED <<T, cur, visit>>
    /\ UNCHANGED <<call, dnode, child, ret>>
    /\ UNCHANGED <<g, rot, listvars>>

\* Mutant: deleteCase4 repaints and goes on to deleteCase5 all the same.
deleteCase4_goesOn ==
    /\ pc = "deleteCase4"
    /\ IF /\ isRed(T, T.parent[cur])
          /\ isRed(T, sibling(T, cur)) = FALSE
          /\ isRed(T, T.left[sibling(T, cur)]) = FALSE
          /\ isRed(T, T.right[sibling(T, cur)]) = FALSE
       THEN
           /\ T' = [T EXCEPT !.red[sibling(T, cur)] = TRUE,
                             !.red[T.parent[cur]] = FALSE]
           /\ visit' = fire("deleteCase4")
       ELSE
           UNCHANGED <<T, visit>>
    /\ pc' = "deleteCase5"
    /\ UNCHANGED <<call, locals, ret>>
    /\ UNCHANGED <<g, rot, listvars>>

deleteCase4 ==
    /\ pc = "deleteCase4"
    /\ IF /\ isRed(T, T.parent[cur])
          /\ isRed(T, sibling(T, cur)) = FALSE
          /\ isRed(T, T.left[sibling(T, cur)]) = FALSE
          /\ isRed(T, T.right[sibling(T, cur)]) = FALSE
       THEN
           /\ T' = [T EXCEPT !.red[sibling(T, cur)] = TRUE,
                             !.red[T.parent[cur]] = FALSE]
           /\ cur' = Nil
           /\ pc' = "deleteReplace"
           /\ visit' = fire("deleteCase4")
       ELSE
           /\ pc' = "deleteCase5"
           /\ UNCHANGED <<T, cur, visit>>
    /\ UNCHANGED <<call, dnode, child, ret>>
    /\ UNCHANGED <<g, rot, listvars>>

\* Mutant: deleteCase5 goes on to deleteCase6 without looking at the sibling.
deleteCase5_skips ==
    /\ pc = "deleteCase5"
    /\ UNCHANGED <<T, rot, visit>>
    /\ pc' = "deleteCase6"
    /\ UNCHANGED <<call, locals, ret>>
    /\ UNCHANGED <<g, listvars>>

deleteCase5 ==
    /\ pc = "deleteCase5"
    /\ IF /\ cur = T.left[T.parent[cur]]
          /\ isRed(T, sibling(T, cur)) = FALSE
          /\ isRed(T, T.left[sibling(T, cur)]) = TRUE
          /\ isRed(T, T.right[sibling(T, cur)]) = FALSE
       THEN
           LET t1 == [T EXCEPT !.red[sibling(T, cur)] = TRUE]
               t2 == [t1 EXCEPT !.red[t1.left[sibling(t1, cur)]] = FALSE]
           IN  /\ T' = rotateRight(t2, sibling(t2, cur)) /\ rot' = rot + 1
               /\ visit' = fire("deleteCase5")
       ELSE IF /\ cur = T.right[T.parent[cur]]
               /\ isRed(T, sibling(T, cur)) = FALSE
               /\ isRed(T, T.right[sibling(T, cur)]) = TRUE
               /\ isRed(T, T.left[sibling(T, cur)]) = FALSE
       THEN
           LET t1 == [T EXCEPT !.red[sibling(T, cur)] = TRUE]
               t2 == [t1 EXCEPT !.red[t1.right[sibling(t1, cur)]] = FALSE]
           IN  /\ T' = rotateLeft(t2, sibling(t2, cur)) /\ rot' = rot + 1
               /\ visit' = fire("deleteCase5")
       ELSE
           UNCHANGED <<T, rot, visit>>
    /\ pc' = "deleteCase6"
    /\ UNCHANGED <<call, locals, ret>>
    /\ UNCHANGED <<g, listvars>>

deleteCase6 ==
    /\ pc = "deleteCase6"
    /\ LET t1 == [T EXCEPT !.red[sibling(T, cur)] = isRed(T, T.parent[cur])]
           t2 == [t1 EXCEPT !.red[t1.parent[cur]] = FALSE]
       IN  IF cur = t2.left[t2.parent[cur]] THEN
               T' = rotateLeft([t2 EXCEPT !.red[t2.right[sibling(t2, cur)]] = FALSE],
                               t2.parent[cur])
           ELSE
               T' = rotateRight([t2 EXCEPT !.red[t2.left[sibling(t2, cur)]] = FALSE],
                                t2.parent[cur])
    /\ pc' = "deleteReplace"
    /\ cur' = Nil
    /\ UNCHANGED <<call, dnode, child, ret>>
    /\ rot' = rot + 1
    /\ visit' = fire("deleteCase6")
    /\ UNCHANGED <<g, listvars>>

\* Mutant: size is not decremented.
deleteReplace_sizeKept ==
    /\ pc = "deleteReplace"
    /\ LET t1 == replaceNode(T, dnode, child)
           t2 == IF isRed(t1, t1.root) THEN [t1 EXCEPT !.red[t1.root] = FALSE] ELSE t1
       IN  T' = free(t2, dnode)
    /\ pc' = "RemoveReturn"
    /\ dnode' = Nil
    /\ child' = Nil
    /\ UNCHANGED <<call, cur, ret>>
    /\ UNCHANGED <<g, rot, visit, listvars>>

\* delete, after the fixup: replaceNode, the root forced black, size.
deleteReplace ==
    /\ pc = "deleteReplace"
    /\ LET t1 == replaceNode(T, dnode, child)
           t2 == IF isRed(t1, t1.root) THEN [t1 EXCEPT !.red[t1.root] = FALSE] ELSE t1
           t3 == [t2 EXCEPT !.size = @ - 1]
       IN  T' = free(t3, dnode)
    /\ pc' = "RemoveReturn"
    /\ dnode' = Nil
    /\ child' = Nil
    /\ UNCHANGED <<call, cur, ret>>
    /\ UNCHANGED <<g, rot, visit, listvars>>

\* Remove, after delete has returned.
RemoveReturn ==
    /\ pc = "RemoveReturn"
    /\ ret' = IF oldsize = T.size THEN "error" ELSE "nil"
    /\ pc' = "idle"
    /\ T' = relocate(T)
    /\ UNCHANGED <<call, locals>>
    /\ visit' = NoVisit
    /\ UNCHANGED <<g, rot, listvars>>

Next ==
    \/ \E E \in elems : Add(E)
    \/ \E E \in elems : Remove(E)
    \/ insert
    \/ insertCase1
    \/ insertCase2
    \/ insertCase3
    \/ insertCase4
    \/ insertCase5
    \/ AddReturn
    \/ delete
    \/ deleteCase1
    \/ deleteCase2
    \/ deleteCase3
    \/ deleteCase4
    \/ deleteCase5
    \/ deleteCase6
    \/ deleteReplace
    \/ RemoveReturn

Spec == Init /\ [][Next]_vars

\* The caller passes elements that compare equal but are distinguishable.
InitSat ==
    /\ Init!1 /\ Init!2 /\ Init!3 /\ Init!4 /\ Init!5 /\ Init!6
    /\ Init!7 /\ Init!8 /\ Init!9 /\ Init!10 /\ Init!11 /\ Init!13 /\ Init!14 /\ Init!15
    /\ Init!16
    /\ elems = {Elem(k, v) : k \in 1..MaxSatKey, v \in {"a", "b"}}

SpecSat == InitSat /\ [][Next]_vars

\* The caller fills the tree as the loops of the tests do,
\* for x := 1; x <= MaxDeepKey; x++ { tree.Add(x) }, and removes elements
\* once the tree holds all of them but MaxDeepRemoves - 1 at most: trees
\* deep enough for the fixup of delete to climb past the bottom level.
AddCounting(E) ==
    /\ aset = 1..(E.key - 1)
    /\ Add(E)

RemoveLate(E) ==
    /\ Cardinality(aset) > MaxDeepKey - MaxDeepRemoves
    /\ Remove(E)

NextDeep ==
    \/ \E E \in elems : AddCounting(E)
    \/ \E E \in elems : RemoveLate(E)
    \/ insert
    \/ insertCase1
    \/ insertCase2
    \/ insertCase3
    \/ insertCase4
    \/ insertCase5
    \/ AddReturn
    \/ delete
    \/ deleteCase1
    \/ deleteCase2
    \/ deleteCase3
    \/ deleteCase4
    \/ deleteCase5
    \/ deleteCase6
    \/ deleteReplace
    \/ RemoveReturn

InitDeep ==
    /\ Init!1 /\ Init!2 /\ Init!3 /\ Init!4 /\ Init!5 /\ Init!6
    /\ Init!7 /\ Init!8 /\ Init!9 /\ Init!10 /\ Init!11 /\ Init!13 /\ Init!14 /\ Init!15
    /\ Init!16
    /\ elems = {Elem(k, "a") : k \in 1..MaxDeepKey}

SpecDeep == InitDeep /\ [][NextDeep]_vars

\* A call that has begun goes on to its return: the goroutine of the
\* caller is scheduled again and again.
callRuns == pc # "idle" /\ NextDeep

SpecDeepFair == SpecDeep /\ WF_vars(callRuns)

\* ---------------------------------------------------------------- queries
\* Mutant: the call empties the tree it was asked about.
query_empties(o, E, result) ==
    /\ pc = "idle"
    /\ op' = o
    /\ arg' = E
    /\ pre' = T
    /\ ret' = result
    /\ T' = New
    /\ rot' = 0
    /\ visit' = NoVisit
    /\ UNCHANGED <<pc, oldsize, locals, aset, elems, g, listvars>>

\* Size, Empty, Contains, First and Last run to completion in one step.
query(o, E, result) ==
    /\ pc = "idle"
    /\ op' = o
    /\ arg' = E
    /\ pre' = T
    /\ ret' = result
    /\ rot' = 0
    /\ visit' = NoVisit
    /\ UNCHANGED <<T, pc, oldsize, locals, aset, elems, g, listvars>>

SizeCall == query("Size", NoElem, Size(T))
EmptyCall == query("Empty", NoElem, Empty(T))
ContainsCall(E) == query("Contains", E, Contains(T, E))
FirstCall == query("First", NoElem, First(T))
LastCall == query("Last", NoElem, Last(T))

\* ------------------------------------------------------------- traversals
\* stack.Stack and queue.Queue over a linked list: the head is the top of
\* the stack (AddFirst) and the front of the queue (AddLast at the back).
Push(S, V) == <<V>> \o S
Pop(S) == Tail(S)
Peek(S) == Head(S)
Offer(Q, V) == Append(Q, V)
Poll(Q) == Tail(Q)

\* Mutant: the channel is made without a buffer.
traverse_unbuffered(kind) ==
    /\ pc = "idle"
    /\ g.pc = "none"
    /\ g' = [kind |-> kind, pc |-> "start", nodes |-> <<>>, cur |-> Nil,
             prev |-> Nil, ch |-> <<>>, cap |-> 0, at |-> T]
    /\ op' = kind
    /\ arg' = NoElem
    /\ pre' = T
    /\ ret' = "chan"
    /\ rot' = 0
    /\ visit' = NoVisit
    /\ UNCHANGED <<T, pc, oldsize, locals, aset, elems, listvars>>

\* ch := make(chan Elem, T.size); go func() {...}(); return ch
traverse(kind) ==
    /\ pc = "idle"
    /\ g.pc = "none"
    /\ g' = [kind |-> kind, pc |-> "start", nodes |-> <<>>, cur |-> Nil,
             prev |-> Nil, ch |-> <<>>, cap |-> T.size, at |-> T]
    /\ op' = kind
    /\ arg' = NoElem
    /\ pre' = T
    /\ ret' = "chan"
    /\ rot' = 0
    /\ visit' = NoVisit
    /\ UNCHANGED <<T, pc, oldsize, locals, aset, elems, listvars>>

InOrder == traverse("InOrder")
PreOrder == traverse("PreOrder")
PostOrder == traverse("PostOrder")
LevelOrder == traverse("LevelOrder")

\* close(ch); the goroutine ends and its locals are gone.
closed(p) == [p EXCEPT !.pc = "closed", !.nodes = <<>>, !.cur = Nil, !.prev = Nil]

\* One turn of the goroutine of InOrder: its first statements, or one
\* iteration of its loop.
inOrderStep(t, p) ==
    IF p.pc = "start" THEN [p EXCEPT !.pc = "loop", !.nodes = <<>>, !.cur = t.root]
    ELSE IF p.cur # Nil THEN
        [p EXCEPT !.nodes = Push(@, p.cur), !.cur = t.left[p.cur]]
    ELSE IF p.nodes # <<>> THEN
        LET n == Peek(p.nodes) IN
        [p EXCEPT !.nodes = Pop(@), !.ch = Append(@, t.elem[n]), !.cur = t.right[n]]
    ELSE closed(p)

\* Mutant: the left child is pushed before the right one.
preOrderStep_leftFirst(t, p) ==
    IF p.pc = "start" THEN
        IF Empty(t) THEN closed(p)
        ELSE [p EXCEPT !.pc = "loop", !.nodes = Push(<<>>, t.root)]
    ELSE IF p.nodes # <<>> THEN
        LET n  == Peek(p.nodes)
            s1 == Pop(p.nodes)
            s2 == IF t.left[n] # Nil THEN Push(s1, t.left[n]) ELSE s1
            s3 == IF t.right[n] # Nil THEN Push(s2, t.right[n]) ELSE s2
        IN  [p EXCEPT !.nodes = s3, !.ch = Append(@, t.elem[n])]
    ELSE closed(p)

preOrderStep(t, p) ==
    IF p.pc = "start" THEN
        IF Empty(t) THEN closed(p)
        ELSE [p EXCEPT !.pc = "loop", !.nodes = Push(<<>>, t.root)]
    ELSE IF p.nodes # <<>> THEN
        LET n  == Peek(p.nodes)
            s1 == Pop(p.nodes)
            s2 == IF t.right[n] # Nil THEN Push(s1, t.right[n]) ELSE s1
            s3 == IF t.left[n] # Nil THEN Push(s2, t.left[n]) ELSE s2
        IN  [p EXCEPT !.nodes = s3, !.ch = Append(@, t.elem[n])]
    ELSE closed(p)

\* Mutant: on the way down, a node without a left child is taken for a leaf.
postOrderStep_leftOnly(t, p) ==
    IF p.pc = "start" THEN
        IF Empty(t) THEN closed(p)
        ELSE [p EXCEPT !.pc = "loop", !.nodes = Push(<<>>, t.root), !.prev = Nil]
    ELSE IF p.nodes # <<>> THEN
        LET current == Peek(p.nodes)
            p1 == IF p.prev = Nil \/ t.left[p.prev] = current \/ t.right[p.prev] = current THEN
                      IF t.left[current] # Nil THEN [p EXCEPT !.nodes = Push(@, t.left[current])]
                      ELSE p
                  ELSE IF t.left[current] = p.prev THEN
                      IF t.right[current] # Nil THEN [p EXCEPT !.nodes = Push(@, t.right[current])]
                      ELSE p
                  ELSE [p EXCEPT !.ch = Append(@, t.elem[current]), !.nodes = Pop(@)]
        IN  [p1 EXCEPT !.prev = current]
    ELSE closed(p)

postOrderStep(t, p) ==
    IF p.pc = "start" THEN
        IF Empty(t) THEN closed(p)
        ELSE [p EXCEPT !.pc = "loop", !.nodes = Push(<<>>, t.root), !.prev = Nil]
    ELSE IF p.nodes # <<>> THEN
        LET current == Peek(p.nodes)
            p1 == IF p.prev = Nil \/ t.left[p.prev] = current \/ t.right[p.prev] = current THEN
                      IF t.left[current] # Nil THEN [p EXCEPT !.nodes = Push(@, t.left[current])]
                      ELSE IF t.right[current] # Nil THEN [p EXCEPT !.nodes = Push(@, t.right[current])]
                      ELSE p
                  ELSE IF t.left[current] = p.prev THEN
                      IF t.right[current] # Nil THEN [p EXCEPT !.nodes = Push(@, t.right[current])]
                      ELSE p
                  ELSE [p EXCEPT !.ch = Append(@, t.elem[current]), !.nodes = Pop(@)]
        IN  [p1 EXCEPT !.prev = current]
    ELSE closed(p)

\* Mutant: the children are pushed on the front, as on a stack.
levelOrderStep_lifo(t, p) ==
    IF p.pc = "start" THEN
        IF Empty(t) THEN closed(p)
        ELSE [p EXCEPT !.pc = "loop", !.nodes = Offer(<<>>, t.root)]
    ELSE IF p.nodes # <<>> THEN
        LET current == Peek(p.nodes)
            q1 == Poll(p.nodes)
            q2 == IF t.left[current] # Nil THEN Push(q1, t.left[current]) ELSE q1
            q3 == IF t.right[current] # Nil THEN Push(q2, t.right[current]) ELSE q2
        IN  [p EXCEPT !.nodes = q3, !.ch = Append(@, t.elem[current])]
    ELSE closed(p)

levelOrderStep(t, p) ==
    IF p.pc = "start" THEN
        IF Empty(t) THEN closed(p)
        ELSE [p EXCEPT !.pc = "loop", !.nodes = Offer(<<>>, t.root)]
    ELSE IF p.nodes # <<>> THEN
        LET current == Peek(p.nodes)
            q1 == Poll(p.nodes)
            q2 == IF t.left[current] # Nil THEN Offer(q1, t.left[current]) ELSE q1
            q3 == IF t.right[current] # Nil THEN Offer(q2, t.right[current]) ELSE q2
        IN  [p EXCEPT !.nodes = q3, !.ch = Append(@, t.elem[current])]
    ELSE closed(p)

step(t, p) ==
    IF p.kind = "InOrder" THEN inOrderStep(t, p)
    ELSE IF p.kind = "PreOrder" THEN preOrderStep(t, p)
    ELSE IF p.kind = "PostOrder" THEN postOrderStep(t, p)
    ELSE levelOrderStep(t, p)

\* One turn of the goroutine.  A send on a full channel blocks: the turn is
\* taken when there is room.
producer(kind) ==
    /\ g.kind = kind
    /\ IF g.pc = "stale" THEN
           g' = undefined(g, IF pc # "idle" THEN "raced" ELSE "mixed")
       ELSE /\ g.pc \in {"start", "loop"}
            /\ Len(step(T, g).ch) <= g.cap
            /\ g' = step(T, g)
    /\ UNCHANGED <<T, pc, op, arg, oldsize, locals, ret, pre, aset, elems, rot, visit, listvars>>

InOrderRun == producer("InOrder")
PreOrderRun == producer("PreOrder")
PostOrderRun == producer("PostOrder")
LevelOrderRun == producer("LevelOrder")

\* for item := range ch {...}: the caller receives until the channel is
\* closed and empty, and drops it.
Drain ==
    /\ pc = "idle"
    /\ g.pc \in {"closed", "raced", "mixed"}
    /\ g' = NoProducer
    /\ UNCHANGED <<T, pc, op, arg, oldsize, locals, ret, pre, aset, elems, rot, visit, listvars>>

NextTrav ==
    \/ Next
    \/ SizeCall
    \/ EmptyCall
    \/ \E E \in elems : ContainsCall(E)
    \/ FirstCall
    \/ LastCall
    \/ InOrder
    \/ PreOrder
    \/ PostOrder
    \/ LevelOrder
    \/ InOrderRun
    \/ PreOrderRun
    \/ PostOrderRun
    \/ LevelOrderRun
    \/ Drain

InitTrav ==
    /\ Init!1 /\ Init!2 /\ Init!3 /\ Init!4 /\ Init!5 /\ Init!6
    /\ Init!7 /\ Init!8 /\ Init!9 /\ Init!10 /\ Init!11 /\ Init!13 /\ Init!14 /\ Init!15
    /\ Init!16
    /\ elems = {Elem(k, "a") : k \in 1..MaxTravKey}

SpecTrav == InitTrav /\ [][NextTrav]_vars

\* ======================================================================
\* package linkedlist (and stack, queue, which embed a LinkedList)
\* ======================================================================
Vals == 1..MaxVal
\* The int arguments a caller passes to Get and Set.
Indexes == (0 - 2)..(MaxLen + 1)

\* The addresses from n on along next, fuel of them at most.
RECURSIVE chainFrom(_, _, _)
chainFrom(l, n, fuel) ==
    IF n = Nil \/ fuel = 0 THEN <<>>
    ELSE <<n>> \o chainFrom(l, l.next[n], fuel - 1)

chain(l) == chainFrom(l, l.first, Len(l.Value))

\* The values of the list from first to last.
values(l) == [i \in 1..Len(chain(l)) |-> l.Value[chain(l)[i]]]

\* Nodes no pointer of the program reaches are reclaimed, and the nodes of
\* the list take the addresses 1, 2, ... from first on: lists are equal up
\* to the addresses of their nodes.  A list whose pointers lead outside its
\* chain is left as it is.
place(l, a) ==
    IF a = Nil THEN Nil ELSE CHOOSE i \in 1..Len(chain(l)) : chain(l)[i] = a

compact(l) ==
    LET c    == chain(l)
        in   == {c[i] : i \in 1..Len(c)}
        refs == {l.first, l.last} \cup {l.next[a] : a \in in} \cup {l.prev[a] : a \in in}
    IN  IF refs \subseteq in \cup {Nil} THEN
            [size  |-> l.size,
             first |-> place(l, l.first),
             last  |-> place(l, l.last),
             Value |-> [i \in 1..Len(c) |-> l.Value[c[i]]],
             next  |-> [i \in 1..Len(c) |-> place(l, l.next[c[i]])],
             prev  |-> [i \in 1..Len(c) |-> place(l, l.prev[c[i]])]]
        ELSE l

\* n := node{V, next, prev} at a fresh address.
newNode(l, V, nx, pv) ==
    [l EXCEPT !.Value = Append(@, V), !.next = Append(@, nx), !.prev = Append(@, pv)]

AddFirst(l, V) ==
    LET n  == Len(l.Value) + 1
        l1 == newNode(l, V, Nil, Nil)
        l2 == IF l.size = 0 THEN [l1 EXCEPT !.last = n]
              ELSE [l1 EXCEPT !.next[n] = l.first, !.prev[l.first] = n]
    IN  [l2 EXCEPT !.first = n, !.size = @ + 1]

AddLast(l, V) ==
    LET n  == Len(l.Value) + 1
        l1 == newNode(l, V, Nil, l.last)
        l2 == IF l.size = 0 THEN [l1 EXCEPT !.first = n]
              ELSE [l1 EXCEPT !.next[l.last] = n]
    IN  [l2 EXCEPT !.last = n, !.size = @ + 1]

\* FromSlice: what AddLast of each entry in turn builds, node i at address i.
FromSlice(slc) ==
    [size  |-> Len(slc),
     first |-> IF slc = <<>> THEN Nil ELSE 1,
     last  |-> Len(slc),
     Value |-> slc,
     next  |-> [i \in 1..Len(slc) |-> IF i < Len(slc) THEN i + 1 ELSE Nil],
     prev  |-> [i \in 1..Len(slc) |-> i - 1]]

\* Mutant: removing the first node leaves prev of the second pointing at it.
removeNode_prevKept(l, N) ==
    IF l.size = 1 THEN [l EXCEPT !.first = Nil, !.last = Nil, !.size = @ - 1]
    ELSE IF l.prev[N] = Nil THEN
        [l EXCEPT !.first = l.next[N], !.size = @ - 1]
    ELSE IF l.next[N] = Nil THEN
        [l EXCEPT !.next[l.prev[N]] = Nil, !.last = l.prev[N], !.size = @ - 1]
    ELSE [l EXCEPT !.prev[l.next[N]] = l.prev[N], !.next[l.prev[N]] = l.next[N],
                   !.size = @ - 1]

\* removeNode under the lock of the list, N a node of a consistent list.
removeNode(l, N) ==
    IF l.size = 1 THEN [l EXCEPT !.first = Nil, !.last = Nil, !.size = @ - 1]
    ELSE IF l.prev[N] = Nil THEN
        [l EXCEPT !.prev[l.next[N]] = Nil, !.first = l.next[N], !.size = @ - 1]
    ELSE IF l.next[N] = Nil THEN
        [l EXCEPT !.next[l.prev[N]] = Nil, !.last = l.prev[N], !.size = @ - 1]
    ELSE [l EXCEPT !.prev[l.next[N]] = l.prev[N], !.next[l.prev[N]] = l.next[N],
                   !.size = @ - 1]

RECURSIVE slowGetFrom(_, _, _)
slowGetFrom(l, n, E) ==
    IF n = Nil THEN Nil
    ELSE IF l.Value[n] = E THEN n
    ELSE slowGetFrom(l, l.next[n], E)

slowGet(l, E) == slowGetFrom(l, l.first, E)

\* The loops of getNode.  Following next or prev of a nil node panics.
RECURSIVE walkNext(_, _, _, _)
walkNext(l, n, p, i) ==
    IF p = i THEN [err |-> "nil", n |-> n]
    ELSE IF n = Nil THEN [err |-> "panic", n |-> Nil]
    ELSE walkNext(l, l.next[n], p + 1, i)

RECURSIVE walkPrev(_, _, _, _)
walkPrev(l, n, p, i) ==
    IF p = i THEN [err |-> "nil", n |-> n]
    ELSE IF n = Nil THEN [err |-> "panic", n |-> Nil]
    ELSE walkPrev(l, l.prev[n], p - 1, i)

getNode(l, i) ==
    IF l.size = 0 \/ i > l.size - 1 THEN [err |-> "error", n |-> Nil]
    ELSE IF i <= l.size \div 2 THEN walkNext(l, l.first, 0, i)
    ELSE walkPrev(l, l.last, l.size - 1, i)

\* What a call returns: an Elem of the list ("value"), nil, a non-nil error,
\* or nothing because it panicked.
Value(v) == [out |-> "value", v |-> v]
Out(o) == [out |-> o, v |-> 0]

\* A call of the single caller, under the lock of the list from its first
\* statement to its return: the list it leaves and what it returns.  A
\* panic ends the program.
listCall(o, i, V, l, result) ==
    /\ caller.pc = "idle"
    /\ caller' = [pc |-> IF result.out = "panic" THEN "panic" ELSE "idle",
                  op |-> o, i |-> i, V |-> V, ret |-> result, pre |-> L]
    /\ L' = compact(l)
    /\ UNCHANGED <<workers, chans>>
    /\ UNCHANGED <<T, pc, op, arg, oldsize, locals, ret, pre, aset, elems, g, rot, visit>>

ListAddFirst(V) ==
    /\ L.size < MaxLen
    /\ listCall("AddFirst", 0, V, AddFirst(L, V), Out("nil"))

ListAddLast(V) ==
    /\ L.size < MaxLen
    /\ listCall("AddLast", 0, V, AddLast(L, V), Out("nil"))

ListGet(i) ==
    LET r == getNode(L, i) IN
    listCall("Get", i, 0, L,
             IF r.err = "panic" THEN Out("panic")
             ELSE IF r.err # "nil" THEN Out("nil")
             ELSE Value(L.Value[r.n]))

ListSet(i, V) ==
    LET r == getNode(L, i) IN
    listCall("Set", i, V, IF r.err = "nil" THEN [L EXCEPT !.Value[r.n] = V] ELSE L,
             Out(r.err))

RemoveFirst ==
    IF L.size = 0 THEN listCall("RemoveFirst", 0, 0, L, Out("error"))
    ELSE listCall("RemoveFirst", 0, 0, removeNode(L, L.first), Out("nil"))

RemoveLast ==
    IF L.size = 0 THEN listCall("RemoveLast", 0, 0, L, Out("error"))
    ELSE listCall("RemoveLast", 0, 0, removeNode(L, L.last), Out("nil"))

ListRemove(V) ==
    IF slowGet(L, V) = Nil THEN listCall("Remove", 0, V, L, Out("error"))
    ELSE listCall("Remove", 0, V, removeNode(L, slowGet(L, V)), Out("nil"))

NextList ==
    \/ \E V \in Vals : ListAddFirst(V)
    \/ \E V \in Vals : ListAddLast(V)
    \/ \E i \in Indexes : ListGet(i)
    \/ \E i \in Indexes, V \in Vals : ListSet(i, V)
    \/ RemoveFirst
    \/ RemoveLast
    \/ \E V \in Vals : ListRemove(V)

\* The variables of the tree, unused.
NoTree ==
    /\ Init!1 /\ Init!2 /\ Init!3 /\ Init!4 /\ Init!5 /\ Init!6 /\ Init!7
    /\ Init!8 /\ Init!9 /\ Init!10 /\ Init!11 /\ Init!12 /\ Init!13 /\ Init!14
    /\ Init!16

InitList == NoTree /\ NoList

SpecList == InitList /\ [][NextList]_vars

\* ------------------------------------------------- Stack.Pop, Queue.Poll
\* Stack.Pop and Queue.Poll have one body: Empty(), First(), RemoveFirst(),
\* each of which takes and releases the lock of the embedded list by itself.
\* Goroutine i is in one of them, or between two calls.
PopCall(i) ==
    /\ caller.op = "Pop"
    /\ workers[i].pc = "idle"
    /\ Len(workers[i].got) < MaxPops
    /\ workers' = [workers EXCEPT ![i].pc = "Empty"]
    /\ UNCHANGED <<L, caller, chans>>
    /\ UNCHANGED <<T, pc, op, arg, oldsize, locals, ret, pre, aset, elems, g, rot, visit>>

\* if S.Empty() { return nil }
PopEmpty(i) ==
    /\ caller.op = "Pop"
    /\ workers[i].pc = "Empty"
    /\ workers' = IF L.size = 0
                  THEN [workers EXCEPT ![i].pc = "idle", ![i].got = Append(@, Out("nil"))]
                  ELSE [workers EXCEPT ![i].pc = "First"]
    /\ UNCHANGED <<L, caller, chans>>
    /\ UNCHANGED <<T, pc, op, arg, oldsize, locals, ret, pre, aset, elems, g, rot, visit>>

\* result := S.First()
PopFirst(i) ==
    /\ caller.op = "Pop"
    /\ workers[i].pc = "First"
    /\ workers' = [workers EXCEPT ![i].pc = "RemoveFirst",
                                  ![i].result = IF L.size = 0 THEN Out("nil")
                                                ELSE Value(L.Value[L.first])]
    /\ UNCHANGED <<L, caller, chans>>
    /\ UNCHANGED <<T, pc, op, arg, oldsize, locals, ret, pre, aset, elems, g, rot, visit>>

\* S.RemoveFirst(); return result
PopRemoveFirst(i) ==
    /\ caller.op = "Pop"
    /\ workers[i].pc = "RemoveFirst"
    /\ L' = IF L.size = 0 THEN L ELSE compact(removeNode(L, L.first))
    /\ workers' = [workers EXCEPT ![i].pc = "idle",
                                  ![i].got = Append(@, workers[i].result)]
    /\ UNCHANGED <<caller, chans>>
    /\ UNCHANGED <<T, pc, op, arg, oldsize, locals, ret, pre, aset, elems, g, rot, visit>>

NextPop ==
    \/ \E i \in 1..Poppers : PopCall(i)
    \/ \E i \in 1..Poppers : PopEmpty(i)
    \/ \E i \in 1..Poppers : PopFirst(i)
    \/ \E i \in 1..Poppers : PopRemoveFirst(i)

\* Push(n), ..., Push(1) on a new Stack.
RECURSIVE pushed(_)
pushed(n) == IF n = 0 THEN NewList ELSE AddFirst(pushed(n - 1), MaxLen + 1 - n)

\* A Stack of pairwise different elements, and goroutines that have not yet
\* called Pop.
InitPop ==
    /\ NoTree
    /\ L \in {compact(pushed(n)) : n \in 1..MaxLen}
    /\ caller = [pc |-> "wait", op |-> "Pop", pre |-> L]
    /\ workers = [i \in 1..Poppers |-> [pc |-> "idle", result |-> Out("nil"), got |-> <<>>]]
    /\ chans = NoChans

SpecPop == InitPop /\ [][NextPop]_vars

\* ----------------------------------------------------- Contains, fastGet
\* Contains holds the read lock of the list from its call to its return.
\* On a short list fastGet is slowGet; on a long one it makes the channels
\* found (buffer 1) and done (buffer 2) and starts two goroutines, here
\* workers[1] from L.first and workers[2] from L.last.
ListContains(V) ==
    /\ caller.pc = "idle"
    /\ caller.op = "none"
    /\ IF L.size < FastGetMin THEN
           /\ caller' = [pc |-> "returned", op |-> "Contains", V |-> V,
                         ret |-> slowGet(L, V) # Nil, half |-> 0]
           /\ UNCHANGED <<workers, chans>>
       ELSE
           /\ caller' = [pc |-> "select", op |-> "Contains", V |-> V,
                         ret |-> FALSE, half |-> L.size \div 2]
           /\ workers' = <<[pc |-> "loop", cur |-> L.first, n |-> 0],
                           [pc |-> "loop", cur |-> L.last, n |-> L.size]>>
           /\ chans' = [found |-> <<>>, done |-> 0, c |-> 0]
    /\ UNCHANGED L
    /\ UNCHANGED <<T, pc, op, arg, oldsize, locals, ret, pre, aset, elems, g, rot, visit>>

\* One turn of goroutine i: an iteration of its loop while test says there
\* is one (cur.Value on a nil cur panics; a match is sent after the loop),
\* or a send: found <- cur blocks while the buffer of found is full,
\* done <- true never blocks.  next is the goroutine after cur = cur.next
\* or cur = cur.prev and the step of n.
fastGetTurn(i, test, next) ==
    /\ caller.op = "Contains"
    /\ \/ /\ workers[i].pc = "loop"
          /\ UNCHANGED chans
          /\ IF ~test THEN
                 workers' = [workers EXCEPT ![i].pc = "done"] /\ UNCHANGED caller
             ELSE IF workers[i].cur = Nil THEN
                 caller' = [caller EXCEPT !.pc = "panic"] /\ UNCHANGED workers
             ELSE IF caller.V = L.Value[workers[i].cur] THEN
                 workers' = [workers EXCEPT ![i].pc = "found"] /\ UNCHANGED caller
             ELSE
                 workers' = [workers EXCEPT ![i] = next] /\ UNCHANGED caller
       \/ /\ workers[i].pc = "found"
          /\ Len(chans.found) < 1
          /\ chans' = [chans EXCEPT !.found = Append(@, workers[i].cur)]
          /\ workers' = [workers EXCEPT ![i].pc = "done"]
          /\ UNCHANGED caller
       \/ /\ workers[i].pc = "done"
          /\ chans' = [chans EXCEPT !.done = @ + 1]
          /\ workers' = [workers EXCEPT ![i].pc = "exit"]
          /\ UNCHANGED caller
    /\ UNCHANGED L
    /\ UNCHANGED <<T, pc, op, arg, oldsize, locals, ret, pre, aset, elems, g, rot, visit>>

\* cur := L.first; for n := 0; n < half; n++ {...; cur = cur.next}
fastGetFront ==
    /\ caller.op = "Contains"
    /\ Len(workers) = 2
    /\ fastGetTurn(1, workers[1].n < caller.half,
                   [workers[1] EXCEPT !.cur = L.next[workers[1].cur], !.n = @ + 1])

\* cur := L.last; for n := L.size; n >= half; n-- {...; cur = cur.prev}
fastGetBack ==
    /\ caller.op = "Contains"
    /\ Len(workers) = 2
    /\ fastGetTurn(2, workers[2].n >= caller.half,
                   [workers[2] EXCEPT !.cur = L.prev[workers[2].cur], !.n = @ - 1])

\* The outer select of fastGet takes whichever of done and found is ready;
\* having taken done, the inner select does the same and returns nil on a
\* second done.
fastGetSelect ==
    /\ caller.op = "Contains"
    /\ caller.pc \in {"select", "select2"}
    /\ \/ /\ chans.done > 0
          /\ chans' = [chans EXCEPT !.done = @ - 1]
          /\ caller' = IF caller.pc = "select" THEN [caller EXCEPT !.pc = "select2"]
                       ELSE [caller EXCEPT !.pc = "returned", !.ret = FALSE]
       \/ /\ chans.found # <<>>
          /\ chans' = [chans EXCEPT !.found = Tail(@)]
          /\ caller' = [caller EXCEPT !.pc = "returned", !.ret = Head(chans.found) # Nil]
    /\ UNCHANGED <<L, workers>>
    /\ UNCHANGED <<T, pc, op, arg, oldsize, locals, ret, pre, aset, elems, g, rot, visit>>

NextContains ==
    \/ \E V \in {1} : ListContains(V)
    \/ fastGetFront
    \/ fastGetBack
    \/ fastGetSelect

\* A slice of n entries: a 1 at place p (nowhere when p is 0), 2 elsewhere.
oneAt(n, p) == [i \in 1..n |-> IF i = p THEN 1 ELSE 2]

\* The lists searched: just below and at the longest length, with the
\* element sought absent, at either end, or on either side of the middle.
InitContains ==
    /\ NoTree
    /\ L \in {FromSlice(oneAt(n, p)) : n \in {MaxLongLen - 1, MaxLongLen},
                                       p \in {0, 1, MaxLongLen \div 2,
                                              MaxLongLen \div 2 + 1, MaxLongLen - 1}}
    /\ caller = NoCall
    /\ workers = <<>>
    /\ chans = NoChans

SpecContains == InitContains /\ [][NextContains]_vars

\* ------------------------------------------------------ Filter, ParFilter
\* f of the example of the doc comments, (1,2,3).Filter(>= 2): keep the
\* values from m up.
atLeast(m, V) == V >= m

\* for n := L.first; n != nil; n = n.next { if !f(n.Value) { L.removeNode(n) } }
RECURSIVE filterFrom(_, _, _, _)
filterFrom(l, n, m, fuel) ==
    IF n = Nil \/ fuel = 0 THEN l
    ELSE LET kept == IF atLeast(m, l.Value[n]) THEN l ELSE removeNode(l, n)
         IN  filterFrom(kept, kept.next[n], m, fuel - 1)

Filter(l, m) == filterFrom(l, l.first, m, Len(l.Value))

\* ParFilter takes the write lock, makes c with a buffer of L.size, and
\* enters its first loop.  was keeps the list as the call found it.
ParFilterCall(m) ==
    /\ caller.pc = "idle"
    /\ caller.op = "none"
    /\ caller' = [pc |-> "spawn", op |-> "ParFilter", m |-> m, n |-> L.first,
                  cap |-> L.size, i |-> 0, was |-> L]
    /\ workers' = <<>>
    /\ chans' = NoChans
    /\ UNCHANGED L
    /\ UNCHANGED <<T, pc, op, arg, oldsize, locals, ret, pre, aset, elems, g, rot, visit>>

\* One iteration of the first loop: go func(n *node) {...}(n); n = n.next.
\* The goroutines started so far write the next field of nodes before n
\* only, so that the read of n.next is not in a race.
ParFilterSpawn ==
    /\ caller.op = "ParFilter"
    /\ caller.pc = "spawn"
    /\ IF caller.n = Nil THEN
           caller' = [caller EXCEPT !.pc = "drain"] /\ UNCHANGED workers
       ELSE
           /\ workers' = Append(workers, [pc |-> "f", n |-> caller.n, sz |-> 0])
           /\ caller' = [caller EXCEPT !.n = L.next[caller.n]]
    /\ UNCHANGED <<L, chans>>
    /\ UNCHANGED <<T, pc, op, arg, oldsize, locals, ret, pre, aset, elems, g, rot, visit>>

\* The test of the second loop, i < L.size, which reads the size the
\* goroutines are decrementing; when it fails ParFilter returns.
ParFilterDrain ==
    /\ caller.op = "ParFilter"
    /\ caller.pc = "drain"
    /\ caller' = [caller EXCEPT !.pc = IF caller.i < L.size THEN "recv" ELSE "returned"]
    /\ UNCHANGED <<L, workers, chans>>
    /\ UNCHANGED <<T, pc, op, arg, oldsize, locals, ret, pre, aset, elems, g, rot, visit>>

\* <-c; i++
ParFilterRecv ==
    /\ caller.op = "ParFilter"
    /\ caller.pc = "recv"
    /\ chans.c > 0
    /\ chans' = [chans EXCEPT !.c = @ - 1]
    /\ caller' = [caller EXCEPT !.pc = "drain", !.i = @ + 1]
    /\ UNCHANGED <<L, workers>>
    /\ UNCHANGED <<T, pc, op, arg, oldsize, locals, ret, pre, aset, elems, g, rot, visit>>

\* Goroutine i of ParFilter is at the statement at and the program has not
\* panicked.  The goroutines do not take the lock: each statement of theirs
\* is a step of its own, and they go on after ParFilter has returned.
running(i, at) ==
    /\ caller.op = "ParFilter"
    /\ caller.pc # "panic"
    /\ i \in 1..Len(workers)
    /\ workers[i].pc = at

\* Goroutine i goes to the statement to, with the list l and the caller,
\* the channels and the tree as they are.
goes(i, to, l) ==
    /\ workers' = [workers EXCEPT ![i].pc = to]
    /\ L' = l
    /\ UNCHANGED <<caller, chans>>
    /\ UNCHANGED <<T, pc, op, arg, oldsize, locals, ret, pre, aset, elems, g, rot, visit>>

\* A nil pointer is dereferenced: the program panics.
panics ==
    /\ caller' = [caller EXCEPT !.pc = "panic"]
    /\ UNCHANGED <<L, workers, chans>>
    /\ UNCHANGED <<T, pc, op, arg, oldsize, locals, ret, pre, aset, elems, g, rot, visit>>

\* if !f(n.Value) { L.removeNode(n) }
filterTest(i) ==
    /\ running(i, "f")
    /\ goes(i, IF atLeast(caller.m, L.Value[workers[i].n]) THEN "send" ELSE "size", L)

\* The tests of removeNode: L.size == 1, N.prev == nil, N.next == nil.
removeNodeTest(i) ==
    LET N == workers[i].n
    IN  \/ running(i, "size") /\ goes(i, IF L.size = 1 THEN "only" ELSE "prev", L)
        \/ running(i, "prev") /\ goes(i, IF L.prev[N] = Nil THEN "first" ELSE "next", L)
        \/ running(i, "next") /\ goes(i, IF L.next[N] = Nil THEN "last" ELSE "middle", L)

\* Only node: L.first = nil; L.last = nil
removeNodeOnly(i) ==
    \/ running(i, "only") /\ goes(i, "only2", [L EXCEPT !.first = Nil])
    \/ running(i, "only2") /\ goes(i, "dec", [L EXCEPT !.last = Nil])

\* First node: N.next.prev = nil; L.first = N.next
removeNodeFirst(i) ==
    LET N == workers[i].n
    IN  \/ /\ running(i, "first")
           /\ IF L.next[N] = Nil THEN panics
              ELSE goes(i, "first2", [L EXCEPT !.prev[L.next[N]] = Nil])
        \/ running(i, "first2") /\ goes(i, "dec", [L EXCEPT !.first = L.next[N]])

\* Last node: N.prev.next = nil; L.last = N.prev
removeNodeLast(i) ==
    LET N == workers[i].n
    IN  \/ /\ running(i, "last")
           /\ IF L.prev[N] = Nil THEN panics
              ELSE goes(i, "last2", [L EXCEPT !.next[L.prev[N]] = Nil])
        \/ running(i, "last2") /\ goes(i, "dec", [L EXCEPT !.last = L.prev[N]])

\* Node in middle of chain: N.next.prev = N.prev; N.prev.next = N.next
removeNodeMiddle(i) ==
    LET N == workers[i].n
    IN  \/ /\ running(i, "middle")
           /\ IF L.next[N] = Nil THEN panics
              ELSE goes(i, "middle2", [L EXCEPT !.prev[L.next[N]] = L.prev[N]])
        \/ /\ running(i, "middle2")
           /\ IF L.prev[N] = Nil THEN panics
              ELSE goes(i, "dec", [L EXCEPT !.next[L.prev[N]] = L.next[N]])

\* L.size--: the size is read, and one less is written.
removeNodeSize(i) ==
    \/ /\ running(i, "dec")
       /\ workers' = [workers EXCEPT ![i].pc = "dec2", ![i].sz = L.size]
       /\ UNCHANGED <<L, caller, chans>>
       /\ UNCHANGED <<T, pc, op, arg, oldsize, locals, ret, pre, aset, elems, g, rot, visit>>
    \/ running(i, "dec2") /\ goes(i, "send", [L EXCEPT !.size = workers[i].sz - 1])

\* c <- true, which waits while the buffer of c is full.
filterSend(i) ==
    /\ running(i, "send")
    /\ chans.c < caller.cap
    /\ chans' = [chans EXCEPT !.c = @ + 1]
    /\ workers' = [workers EXCEPT ![i].pc = "exit"]
    /\ UNCHANGED <<L, caller>>
    /\ UNCHANGED <<T, pc, op, arg, oldsize, locals, ret, pre, aset, elems, g, rot, visit>>

NextParFilter ==
    \/ \E m \in 1..(MaxVal + 1) : ParFilterCall(m)
    \/ ParFilterSpawn
    \/ ParFilterDrain
    \/ ParFilterRecv
    \/ \E i \in 1..MaxLen : filterTest(i)
    \/ \E i \in 1..MaxLen : removeNodeTest(i)
    \/ \E i \in 1..MaxLen : removeNodeOnly(i)
    \/ \E i \in 1..MaxLen : removeNodeFirst(i)
    \/ \E i \in 1..MaxLen : removeNodeLast(i)
    \/ \E i \in 1..MaxLen : removeNodeMiddle(i)
    \/ \E i \in 1..MaxLen : removeNodeSize(i)
    \/ \E i \in 1..MaxLen : filterSend(i)

\* The lists filtered: every list of MaxLen values at most.
InitParFilter ==
    /\ NoTree
    /\ L \in {FromSlice(slc) : slc \in UNION {[1..n -> Vals] : n \in 0..MaxLen}}
    /\ caller = NoCall
    /\ workers = <<>>
    /\ chans = NoChans

SpecParFilter == InitParFilter /\ [][NextParFilter]_vars

\* ======================================================================
\* Properties
\* ======================================================================
\* Recursion over the links is cut after NumAddr levels, deeper than any
\* tree the arena can hold, so that it ends on any heap.
RECURSIVE inorderFrom(_, _, _)
inorderFrom(t, n, fuel) ==
    IF n = Nil \/ fuel = 0 THEN <<>>
    ELSE inorderFrom(t, t.left[n], fuel - 1) \o <<n>> \o inorderFrom(t, t.right[n], fuel - 1)

RECURSIVE preorderFrom(_, _, _)
preorderFrom(t, n, fuel) ==
    IF n = Nil \/ fuel = 0 THEN <<>>
    ELSE <<n>> \o preorderFrom(t, t.left[n], fuel - 1) \o preorderFrom(t, t.right[n], fuel - 1)

RECURSIVE postorderFrom(_, _, _)
postorderFrom(t, n, fuel) ==
    IF n = Nil \/ fuel = 0 THEN <<>>
    ELSE postorderFrom(t, t.left[n], fuel - 1) \o postorderFrom(t, t.right[n], fuel - 1) \o <<n>>

RECURSIVE levelFrom(_, _, _)
levelFrom(t, queue, fuel) ==
    IF queue = <<>> \/ fuel = 0 THEN <<>>
    ELSE LET n == Head(queue)
             l == IF t.left[n] # Nil THEN <<t.left[n]>> ELSE <<>>
             r == IF t.right[n] # Nil THEN <<t.right[n]>> ELSE <<>>
         IN  <<n>> \o levelFrom(t, Tail(queue) \o l \o r, fuel - 1)

\* The nodes of t in each order, and the elements they hold.
recInOrder(t) == inorderFrom(t, t.root, NumAddr)
recPreOrder(t) == preorderFrom(t, t.root, NumAddr)
recPostOrder(t) == postorderFrom(t, t.root, NumAddr)
recLevelOrder(t) == IF t.root = Nil THEN <<>> ELSE levelFrom(t, <<t.root>>, NumAddr)
elemsOf(t, s) == [i \in 1..Len(s) |-> t.elem[s[i]]]
keysOf(t, s) == [i \in 1..Len(s) |-> t.elem[s[i]].key]

RECURSIVE reachFrom(_, _, _)
reachFrom(t, n, fuel) ==
    IF n = Nil \/ fuel = 0 THEN {}
    ELSE {n} \cup reachFrom(t, t.left[n], fuel - 1) \cup reachFrom(t, t.right[n], fuel - 1)

\* The nodes reachable from the root.
Nodes(t) == reachFrom(t, t.root, NumAddr)

\* Black nodes on every path from n down to an absent child; -1 when two
\* such paths disagree.
RECURSIVE blackHeight(_, _, _)
blackHeight(t, n, fuel) ==
    IF n = Nil THEN 0
    ELSE IF fuel = 0 THEN -1
    ELSE LET l == blackHeight(t, t.left[n], fuel - 1)
             r == blackHeight(t, t.right[n], fuel - 1)
         IN  IF l < 0 \/ r < 0 \/ l # r THEN -1
             ELSE l + (IF t.red[n] THEN 0 ELSE 1)

\* Nodes on the longest path from n down to an absent child.
RECURSIVE heightFrom(_, _, _)
heightFrom(t, n, fuel) ==
    IF n = Nil \/ fuel = 0 THEN 0
    ELSE LET l == heightFrom(t, t.left[n], fuel - 1)
             r == heightFrom(t, t.right[n], fuel - 1)
         IN  1 + (IF l > r THEN l ELSE r)

height(t) == heightFrom(t, t.root, NumAddr)

RECURSIVE pow2(_)
pow2(n) == IF n = 0 THEN 1 ELSE 2 * pow2(n - 1)

\* Elements a caller may ask about: every key of the bound, with one key
\* below and one above the keys ever added.
Probes == {Elem(k, "a") : k \in 0..(MaxKey + 1)}

Returned(o) == pc = "idle" /\ op = o

\* C1: after any sequence of Add and Remove calls the in-order sequence
\* (left subtree, node, right subtree) is strictly increasing under less
\* and has exactly Size() elements.
C1_InOrderIncreasing ==
    pc = "idle" =>
        LET s == elemsOf(T, recInOrder(T)) IN
        /\ Len(s) = Size(T)
        /\ \A i \in 1..(Len(s) - 1) : less(s[i], s[i + 1])

\* A Remove of a two-child node has returned and left four or more elements.
C1_Witness ==
    /\ Returned("Remove") /\ ret = "nil"
    /\ LET d == get(pre, arg) IN pre.left[d] # Nil /\ pre.right[d] # Nil
    /\ Size(T) >= 4

\* C2: after any sequence of Add and Remove calls every path from a node
\* to a descendant absent child holds the same number of black nodes.
C2_UniformBlackHeight ==
    pc = "idle" => \A n \in Nodes(T) : blackHeight(T, n, NumAddr) >= 0

\* A Remove of a black, childless, non-root node has returned (the fixup
\* ran), leaving five or more elements.
C2_Witness ==
    /\ Returned("Remove") /\ ret = "nil"
    /\ LET d == get(pre, arg) IN
           /\ d # Nil
           /\ ~pre.red[d] /\ pre.left[d] = Nil /\ pre.right[d] = Nil
           /\ pre.parent[d] # Nil
    /\ Size(T) >= 5

\* C3: after any sequence of Add and Remove calls no red node has a red
\* child.
C3_NoRedRed ==
    pc = "idle" =>
        \A n \in Nodes(T) :
            T.red[n] => ~isRed(T, T.left[n]) /\ ~isRed(T, T.right[n])

\* An Add has returned whose new node was attached below a red parent,
\* and the tree has a red node with two black children.
C3_Witness ==
    /\ Returned("Add") /\ ret = "nil"
    /\ Size(pre) >= 3
    /\ LET w == insertWalk(pre, pre.root, arg) IN pre.red[w.n]
    /\ \E m \in Nodes(T) : T.red[m] /\ T.left[m] # Nil /\ T.right[m] # Nil

\* C4: after every Add and every Remove returns, the root, if present, is
\* black.
C4_RootBlack ==
    (pc = "idle" /\ op \in {"Add", "Remove"}) => ~isRed(T, T.root)

\* A Remove of a root whose only child was red has returned: the child is
\* the new root.
C4_Witness ==
    /\ Returned("Remove") /\ ret = "nil"
    /\ get(pre, arg) = pre.root
    /\ Size(pre) = 2
    /\ T.root # Nil /\ pre.red[T.root]

\* C5: after any sequence of Add and Remove calls size is the number of
\* nodes reachable from root, and Empty() holds exactly when Size() is 0.
C5_SizeCountsNodes ==
    pc = "idle" =>
        /\ Size(T) = Cardinality(Nodes(T))
        /\ Empty(T) <=> Size(T) = 0

\* A Remove has returned and emptied a tree.
C5_Witness ==
    /\ Returned("Remove") /\ ret = "nil"
    /\ Empty(T) /\ Size(pre) = 1

\* C6: after any sequence of Add and Remove calls a tree of n elements has
\* height h with 2^h <= (n+1)^2.
C6_HeightBound ==
    pc = "idle" => pow2(height(T)) <= (Size(T) + 1) * (Size(T) + 1)

\* A tree of height 4 holding seven elements or fewer.
C6_Witness ==
    /\ pc = "idle"
    /\ height(T) = 4
    /\ Size(T) <= 7

\* C7: after any sequence of Add and Remove calls Contains(E) is true
\* exactly when E's key is in the set built by the same adds and removes.
C7_ContainsIsMembership ==
    pc = "idle" => \A E \in Probes : Contains(T, E) <=> E.key \in aset

\* A Remove has returned, leaving some keys in and some keys out.
C7_Witness ==
    /\ Returned("Remove") /\ ret = "nil"
    /\ Cardinality(aset) >= 3
    /\ \E E \in Probes : E.key \in Keys /\ E.key # arg.key /\ ~Contains(T, E)

\* C8: Add(E) of an element equal to no stored element returns nil, grows
\* Size() by one, attaches exactly one new node, which holds E, and keeps
\* the membership of every other key.
C8_AddNew ==
    (Returned("Add") /\ ~Contains(pre, arg)) =>
        /\ ret = "nil"
        /\ Size(T) = Size(pre) + 1
        /\ \E n \in Nodes(T) \ Nodes(pre) :
               /\ Nodes(T) = Nodes(pre) \cup {n}
               /\ T.elem[n] = arg
        /\ \A m \in Nodes(pre) : T.elem[m] = pre.elem[m]
        /\ \A E \in Probes : E.key # arg.key => (Contains(T, E) <=> Contains(pre, E))

\* An Add of a new element into a tree of three or more has returned.
C8_Witness ==
    /\ Returned("Add") /\ ~Contains(pre, arg)
    /\ Size(pre) >= 3
    /\ Contains(T, arg)

\* C9: Add(E) of an element equal to a stored element returns an error
\* and leaves Size(), root, every left/right/parent link, every colour and
\* the order of every traversal as they were.
C9_AddDuplicate ==
    (Returned("Add") /\ Contains(pre, arg)) =>
        /\ ret = "error"
        /\ Size(T) = Size(pre)
        /\ T.root = pre.root
        /\ T.left = pre.left /\ T.right = pre.right /\ T.parent = pre.parent
        /\ T.red = pre.red
        /\ Nodes(T) = Nodes(pre)
        /\ keysOf(T, recInOrder(T)) = keysOf(pre, recInOrder(pre))
        /\ keysOf(T, recPreOrder(T)) = keysOf(pre, recPreOrder(pre))
        /\ keysOf(T, recPostOrder(T)) = keysOf(pre, recPostOrder(pre))
        /\ keysOf(T, recLevelOrder(T)) = keysOf(pre, recLevelOrder(pre))

\* An Add of an element equal to a stored one, but with other satellite
\* data, has returned on a tree of three or more.
C9_Witness ==
    /\ Returned("Add") /\ Contains(pre, arg)
    /\ pre.elem[get(pre, arg)] # arg
    /\ Size(pre) >= 3

\* C10: Add(E) of an element equal to a stored element leaves the stored
\* element as it was: the node still holds the value first inserted.
C10_DuplicateKeepsElement ==
    (Returned("Add") /\ Contains(pre, arg)) =>
        T.elem[get(pre, arg)] = pre.elem[get(pre, arg)]

\* C11: Remove(E) of an element equal to no stored element (the empty tree
\* included) returns an error and changes nothing: size, root, every link,
\* every colour and every stored element.
C11_RemoveAbsent ==
    (Returned("Remove") /\ ~Contains(pre, arg)) =>
        /\ ret = "error"
        /\ T = pre

\* A Remove of an absent key has returned on a tree of three or more.
C11_Witness ==
    /\ Returned("Remove") /\ ~Contains(pre, arg)
    /\ Size(pre) >= 3

\* The elements stored in the nodes reachable from the root.
Stored(t) == {t.elem[n] : n \in Nodes(t)}

\* C12: Remove(E) of a stored element returns nil, shrinks Size() by one,
\* makes Contains(E) false and keeps every other stored element, also when
\* the node holding E has two children.
C12_RemoveStored ==
    (Returned("Remove") /\ Contains(pre, arg)) =>
        /\ ret = "nil"
        /\ Size(T) = Size(pre) - 1
        /\ ~Contains(T, arg)
        /\ Stored(T) = Stored(pre) \ {pre.elem[get(pre, arg)]}
        /\ \A E \in Probes : E.key # arg.key => (Contains(T, E) <=> Contains(pre, E))

\* A Remove has returned whose node had two children and whose in-order
\* predecessor was not its left child.
C12_Witness ==
    /\ Returned("Remove") /\ Contains(pre, arg)
    /\ LET d == get(pre, arg) IN
           /\ pre.left[d] # Nil /\ pre.right[d] # Nil
           /\ findMax(pre, pre.left[d]) # pre.left[d]

\* C13: once every added key has been removed again the tree is empty:
\* root absent, Size() = 0, Empty() true, First() and Last() nil.
C13_RemoveAllEmpties ==
    (pc = "idle" /\ aset = {}) =>
        /\ T.root = Nil
        /\ Size(T) = 0
        /\ Empty(T)
        /\ First(T) = NoElem
        /\ Last(T) = NoElem

\* The only element left, the one of key MaxKey, has been removed.
C13_Witness ==
    /\ Returned("Remove") /\ ret = "nil"
    /\ aset = {}
    /\ pre.elem[pre.root].key = MaxKey

\* C14: on a non-empty tree First() is the least and Last() the greatest
\* stored element under less; on the empty tree both are nil.
C14_FirstLast ==
    pc = "idle" =>
        IF Empty(T) THEN First(T) = NoElem /\ Last(T) = NoElem
        ELSE /\ First(T) \in Stored(T) /\ Last(T) \in Stored(T)
             /\ \A E \in Stored(T) : ~less(E, First(T)) /\ ~less(Last(T), E)

\* A tree of five or more whose least element is not in the root's left
\* child and whose greatest is not in the root's right child.
C14_Witness ==
    /\ pc = "idle" /\ Size(T) >= 5
    /\ First(T) # T.elem[T.left[T.root]]
    /\ Last(T) # T.elem[T.right[T.root]]

\* A traversal of kind k has run to its close.
Produced(k) == g.kind = k /\ g.pc = "closed"

\* Nodes of t with a left child only, and with a right child only.
leftOnly(t) == {n \in Nodes(t) : t.left[n] # Nil /\ t.right[n] = Nil}
rightOnly(t) == {n \in Nodes(t) : t.left[n] = Nil /\ t.right[n] # Nil}

\* The entries of a sequence are pairwise different.
distinct(s) == \A i, j \in 1..Len(s) : i # j => s[i] # s[j]

\* C15: the channel of PostOrder, once closed, holds the elements of the
\* tree in recursive post-order (left subtree, right subtree, node), every
\* node once, whatever children the nodes have.
C15_PostOrder ==
    Produced("PostOrder") =>
        /\ g.ch = elemsOf(g.at, recPostOrder(g.at))
        /\ distinct(g.ch)
        /\ {g.ch[i] : i \in 1..Len(g.ch)} = Stored(g.at)

\* A post-order traversal has been produced of a tree that has a node with
\* a left child only and a node with a right child only.
C15_Witness ==
    /\ Produced("PostOrder")
    /\ leftOnly(g.at) # {}
    /\ rightOnly(g.at) # {}

\* C16: the channel of PreOrder, once closed, holds the elements of the
\* tree in recursive pre-order (node, left subtree, right subtree), every
\* node once, the root's element first.
C16_PreOrder ==
    Produced("PreOrder") =>
        /\ g.ch = elemsOf(g.at, recPreOrder(g.at))
        /\ distinct(g.ch)
        /\ {g.ch[i] : i \in 1..Len(g.ch)} = Stored(g.at)
        /\ g.at.root # Nil => Head(g.ch) = g.at.elem[g.at.root]

\* A pre-order traversal has been produced of a tree whose pre-order is not
\* its breadth-first order: the left child of the root has a child.
C16_Witness ==
    /\ Produced("PreOrder")
    /\ recPreOrder(g.at) # recLevelOrder(g.at)

\* Links from n up to the root.
RECURSIVE depthFrom(_, _, _)
depthFrom(t, n, fuel) ==
    IF t.parent[n] = Nil \/ fuel = 0 THEN 0
    ELSE 1 + depthFrom(t, t.parent[n], fuel - 1)

depth(t, n) == depthFrom(t, n, NumAddr)

\* Place of n from the left, which is its place in the in-order sequence.
fromLeft(t, n) == CHOOSE i \in 1..Len(recInOrder(t)) : recInOrder(t)[i] = n

\* The node of t that holds E.
holder(t, E) == CHOOSE n \in Nodes(t) : t.elem[n] = E

\* C17: the channel of LevelOrder, once closed, holds every element of the
\* tree once, a node nearer to the root before a node farther from it, and
\* of two nodes equally far the left one first.
C17_LevelOrder ==
    Produced("LevelOrder") =>
        /\ {g.ch[i] : i \in 1..Len(g.ch)} = Stored(g.at)
        /\ distinct(g.ch)
        /\ \A i, j \in 1..Len(g.ch) :
              i < j =>
                  LET a == holder(g.at, g.ch[i])
                      b == holder(g.at, g.ch[j])
                  IN  \/ depth(g.at, a) < depth(g.at, b)
                      \/ /\ depth(g.at, a) = depth(g.at, b)
                         /\ fromLeft(g.at, a) < fromLeft(g.at, b)

\* A level-order traversal has been produced of a tree of three levels in
\* which breadth-first and depth-first order differ.
C17_Witness ==
    /\ Produced("LevelOrder")
    /\ height(g.at) >= 3
    /\ recLevelOrder(g.at) # recPreOrder(g.at)

\* No loop of a traversal takes more than three turns for a node, with one
\* turn to start and one to close.
MaxTurns == 3 * NumAddr + 2

\* The goroutine p left to itself on the tree t, its channel never received
\* from: it stops where a send would block.
RECURSIVE run(_, _, _)
run(t, p, fuel) ==
    IF p.pc = "closed" \/ fuel = 0 THEN p
    ELSE IF Len(step(t, p).ch) > p.cap THEN p
    ELSE run(t, step(t, p), fuel - 1)

\* C18: while the tree is not mutated, the goroutine of a traversal never
\* holds more elements in its channel than the capacity fixed at the call,
\* is never kept from its next turn by a full channel, and left to itself
\* reaches the close having sent exactly Size() elements.
C18_SendsSizeThenCloses ==
    /\ g.pc \in {"start", "loop"} =>
           /\ g.cap = Size(T)
           /\ Len(g.ch) <= g.cap
           /\ Len(step(T, g).ch) <= g.cap
           /\ run(T, g, MaxTurns).pc = "closed"
           /\ Len(run(T, g, MaxTurns).ch) = Size(T)
    /\ g.pc = "closed" =>
           /\ Len(g.ch) = Size(g.at)
           /\ Len(g.ch) = g.cap

\* An in-order traversal of a tree of four or more elements has closed its
\* channel, which nobody has received from and which is full.
C18_Witness ==
    /\ Produced("InOrder")
    /\ g.cap >= 4
    /\ Len(g.ch) = g.cap

\* The calls that only read the tree.
Readers ==
    {"Size", "Empty", "Contains", "First", "Last",
     "InOrder", "PreOrder", "PostOrder", "LevelOrder"}

\* C19: after Size, Empty, Contains, First, Last or a traversal, and all
\* through the production of a traversal up to its close, the tree is the
\* one of before the call: same root, size, links, colours and elements.
C19_ReadersKeepTree ==
    /\ (pc = "idle" /\ op \in Readers) => T = pre
    /\ g.pc \in {"start", "loop", "closed"} => T = g.at

\* Contains has found an element in a tree of three or more elements of
\* which a traversal has just been produced in full.
C19_Witness ==
    /\ Returned("Contains")
    /\ ret = TRUE
    /\ Size(T) >= 3
    /\ g.pc = "closed"
    /\ Len(g.ch) = Size(T)

\* C20: the goroutine of a traversal never takes a turn that reads the tree
\* while an Add or Remove of the caller is in progress.
C20_NoReadMidMutation == g.pc # "raced"

\* In t the parent reference of n and the child links agree: the root has
\* no parent, any other node is exactly one of the two children of its
\* parent, and each child of n names n as its parent.
backRefs(t, n) ==
    /\ IF n = t.root THEN t.parent[n] = Nil
       ELSE /\ t.parent[n] # Nil
            /\ (t.left[t.parent[n]] = n) # (t.right[t.parent[n]] = n)
    /\ t.left[n] # Nil => t.parent[t.left[n]] = n
    /\ t.right[n] # Nil => t.parent[t.right[n]] = n

\* C25: whenever Add or Remove has returned, parent references and child
\* links agree at every node of the tree.
C25_ParentsMatchChildren ==
    (Returned("Add") \/ Returned("Remove")) => \A n \in Nodes(T) : backRefs(T, n)

\* Remove has returned from a tree of five or more elements, and it has
\* put another node at the root.
C25_Witness ==
    /\ Returned("Remove")
    /\ Size(pre) >= 5
    /\ T.root # Nil
    /\ T.elem[T.root] # pre.elem[pre.root]

\* The places where the fix-ups call rotateLeft and rotateRight.
Rotating == {"insertCase4", "insertCase5", "deleteCase2", "deleteCase5", "deleteCase6"}

\* u is t with the child r of n rotated into the place of n: r hangs where
\* n hung (or is the root), n is the child of r on the side `down`, and the
\* subtree b that r held on that side is the child of n on the side `up`.
rotated(t, u, n, r, b, up, down) ==
    LET p == t.parent[n] IN
    /\ keysOf(u, recInOrder(u)) = keysOf(t, recInOrder(t))
    /\ Nodes(u) = Nodes(t)
    /\ u.parent[r] = p
    /\ IF p = Nil THEN u.root = r
       ELSE /\ u.root = t.root
            /\ t.left[p] = n => u.left[p] = r /\ u.right[p] = t.right[p]
            /\ t.right[p] = n => u.right[p] = r /\ u.left[p] = t.left[p]
    /\ u[down][r] = n
    /\ u.parent[n] = r
    /\ u[up][n] = b
    /\ b # Nil => u.parent[b] = n
    /\ u[down][n] = t[down][n]
    /\ u[up][r] = t[up][r]
    /\ \A m \in {n, r, p, b} \ {Nil} : backRefs(u, m)

\* C26: wherever a fix-up is about to rotate, rotating any node that has the
\* needed child keeps the in-order keys and the nodes of the tree, and
\* re-hangs the three subtrees with all their parent references.
C26_Rotations ==
    pc \in Rotating =>
        \A n \in Nodes(T) :
            /\ T.right[n] # Nil =>
                   rotated(T, rotateLeft(T, n), n, T.right[n], T.left[T.right[n]],
                           "right", "left")
            /\ T.left[n] # Nil =>
                   rotated(T, rotateRight(T, n), n, T.left[n], T.right[T.left[n]],
                           "left", "right")

\* insertCase4 is about to rotate left a parent that is not the root, and
\* the node rotated up hands a subtree over.
C26_Witness ==
    /\ pc = "insertCase4"
    /\ cur = T.right[T.parent[cur]]
    /\ T.parent[cur] = T.left[grandparent(T, cur)]
    /\ T.left[cur] # Nil

\* The order in which the cases of the insert fix-up call one another.
FixupOrder ==
    [insertCase1 |-> {"insertCase2", "AddReturn"},
     insertCase2 |-> {"insertCase3", "AddReturn"},
     insertCase3 |-> {"insertCase1", "insertCase4"},
     insertCase4 |-> {"insertCase5"},
     insertCase5 |-> {"AddReturn"}]

\* One step of the fix-up: it goes on as FixupOrder says, and a step that
\* goes back to insertCase1 comes from insertCase3 and takes the fix-up to
\* the grandparent, two links nearer to the root.
fixupStep ==
    pc \in DOMAIN FixupOrder =>
        /\ pc' \in FixupOrder[pc]
        /\ pc' = "insertCase1" =>
               /\ pc = "insertCase3"
               /\ cur' = grandparent(T, cur)
               /\ cur' # Nil
               /\ depth(T', cur') = depth(T, cur) - 2

\* C27: the insert fix-up ends: no case calls an earlier one except
\* insertCase3, and each time it does the node in hand is two links nearer
\* to the root.
C27_FixupTerminates == [][fixupStep]_vars

\* The fix-up has come back to insertCase1 at a node that is not the root.
C27_Witness ==
    /\ pc = "insertCase1"
    /\ T.elem[cur] # arg
    /\ T.parent[cur] # Nil

\* What insertCase5 finds: the node in hand n and its parent p are red, the
\* grandparent gp is there and black, the uncle is black or absent, and n
\* is on the same side of p as p is of gp.
case5Before(t, n) ==
    LET p  == t.parent[n]
        gp == grandparent(t, n)
    IN  /\ p # Nil
        /\ gp # Nil
        /\ t.red[n]
        /\ t.red[p]
        /\ ~t.red[gp]
        /\ ~isRed(t, uncle(t, n))
        /\ \/ t.left[p] = n /\ t.left[gp] = p
           \/ t.right[p] = n /\ t.right[gp] = p

\* What insertCase5 leaves: p is black and hangs where gp hung in t; n and
\* gp are red and are the two children of p.
case5After(t, u, n) ==
    LET p   == t.parent[n]
        gp  == grandparent(t, n)
        ggp == t.parent[gp]
    IN  /\ ~u.red[p]
        /\ u.parent[p] = ggp
        /\ IF ggp = Nil THEN u.root = p
           ELSE IF t.left[ggp] = gp THEN u.left[ggp] = p
           ELSE u.right[ggp] = p
        /\ {u.left[p], u.right[p]} = {n, gp}
        /\ u.parent[n] = p
        /\ u.parent[gp] = p
        /\ u.red[n]
        /\ u.red[gp]

\* C28: insertCase5 always finds a red outer grandchild under a red parent,
\* a black grandparent and no red uncle, and leaves the parent black in the
\* grandparent's place with the node and the grandparent as red children.
C28_Case5 ==
    [][pc = "insertCase5" => case5Before(T, cur) /\ case5After(T, T', cur)]_vars

\* insertCase5 is reached after the rotation of insertCase4: the node in
\* hand is the old parent, which now hangs under the new node.
C28_Witness ==
    /\ pc = "insertCase5"
    /\ T.elem[cur] # arg
    /\ T.elem[T.parent[cur]] = arg

\* The nodes the next step of the fix-up reads or writes through: the
\* parent and grandparent of the node in hand, and the child that a
\* rotation lifts (the right child for rotateLeft, the left for rotateRight).
case3Reads(t, n) ==
    isRed(t, uncle(t, n)) => t.parent[n] # Nil /\ grandparent(t, n) # Nil

case4Reads(t, n) ==
    /\ t.parent[n] # Nil
    /\ grandparent(t, n) # Nil
    /\ (n = t.right[t.parent[n]] /\ t.parent[n] = t.left[grandparent(t, n)]) =>
           t.right[t.parent[n]] # Nil /\ rotateLeft(t, t.parent[n]).left[n] # Nil
    /\ (n = t.left[t.parent[n]] /\ t.parent[n] = t.right[grandparent(t, n)]) =>
           t.left[t.parent[n]] # Nil /\ rotateRight(t, t.parent[n]).right[n] # Nil

case5Reads(t, n) ==
    /\ t.parent[n] # Nil
    /\ grandparent(t, n) # Nil
    /\ IF n = t.left[t.parent[n]] THEN t.left[grandparent(t, n)] # Nil
       ELSE t.right[grandparent(t, n)] # Nil

\* C29: the insert fix-up never goes through an absent node: where it
\* reads or repaints the parent or the grandparent they are there, and
\* each rotation it calls is of a node that has the child to lift.
C29_FixupReadsNodes ==
    /\ pc = "insertCase3" => case3Reads(T, cur)
    /\ pc = "insertCase4" => case4Reads(T, cur)
    /\ pc = "insertCase5" => case5Reads(T, cur)

\* insertCase5 is about to rotate left a grandparent that is not the root.
C29_Witness ==
    /\ pc = "insertCase5"
    /\ cur = T.right[T.parent[cur]]
    /\ T.parent[grandparent(T, cur)] # Nil

\* C30: Add never rotates more than twice, at any point of the call and
\* when it has returned.
C30_AddRotatesTwiceAtMost == op = "Add" => rot <= 2

\* An Add that rotated twice, in insertCase4 and in insertCase5, has
\* returned; the rotations were not of the new node, which is a leaf, but
\* of an ancestor the fix-up had moved up to through insertCase3.
C30_Witness ==
    /\ Returned("Add")
    /\ rot = 2
    /\ T.left[get(T, arg)] = Nil
    /\ T.right[get(T, arg)] = Nil

\* The last call of the caller was o, with an index outside the list it was
\* made on.
OutOfRange(o) ==
    /\ caller.op = o
    /\ caller.i \notin 0..(caller.pre.size - 1)

\* C24: Get with an index below 0 or above Size()-1 returns nil, Set with
\* such an index returns an error, and both leave the list as it was.
C24_OutOfRangeIndex ==
    /\ OutOfRange("Get") => caller.ret = Out("nil") /\ L = caller.pre
    /\ OutOfRange("Set") => caller.ret = Out("error") /\ L = caller.pre

\* The calls of Pop that have returned: goroutine and number of the call.
Pops == {<<i, k>> : i \in 1..Poppers, k \in 1..MaxPops}
returnedPops == {c \in Pops : c[2] <= Len(workers[c[1]].got)}
popOf(c) == workers[c[1]].got[c[2]]
nonNilPops == {c \in returnedPops : popOf(c).out = "value"}

\* C21: of goroutines popping one Stack of pairwise different elements, no
\* two calls return the same element, and when no call is in flight the
\* elements gone from the Stack are as many as the calls that returned one.
C21_PopsAreAtomic ==
    caller.op = "Pop" =>
        /\ \A c, d \in nonNilPops : c # d => popOf(c) # popOf(d)
        /\ (\A i \in 1..Poppers : workers[i].pc = "idle") =>
               caller.pre.size - L.size = Cardinality(nonNilPops)

\* C22: Contains(V) returns true when some node of the list holds V and
\* false when none does, whatever the length of the list and the order in
\* which the goroutines of fastGet get to send.
C22_ContainsFinds ==
    (caller.op = "Contains" /\ caller.pc = "returned") =>
        caller.ret = (\E a \in 1..Len(L.Value) : L.Value[a] = caller.V)

\* C23: ParFilter(f) does not panic, returns only after every goroutine
\* it started has finished, and leaves the list as Filter(f) leaves it: the
\* values satisfying f in their order, size their count, first, last and
\* the links in agreement.
C23_ParFilterAsFilter ==
    caller.op = "ParFilter" =>
        /\ caller.pc # "panic"
        /\ caller.pc = "returned" =>
               /\ \A i \in 1..Len(workers) : workers[i].pc = "exit"
               /\ compact(L) = compact(Filter(caller.was, caller.m))

\* The function bodies of the fixup of delete.
DeleteFixup ==
    {"deleteCase1", "deleteCase2", "deleteCase3", "deleteCase4", "deleteCase5",
     "deleteCase6"}

\* n hangs in t: it is the root, or a child of its parent.
attached(t, n) ==
    /\ n \in Nodes(t)
    /\ IF t.parent[n] = Nil THEN t.root = n
       ELSE n = t.left[t.parent[n]] \/ n = t.right[t.parent[n]]

\* The nodes on the way from n up to the root, n among them.
RECURSIVE upFrom(_, _, _)
upFrom(t, n, fuel) ==
    IF n = Nil \/ fuel = 0 THEN {}
    ELSE {n} \cup upFrom(t, t.parent[n], fuel - 1)

\* c is what delete computes as the child of n: n has no child but c, and
\* c, when there is one, hangs under n.
onlyChild(t, n, c) ==
    /\ c = IF t.right[n] = Nil THEN t.left[n] ELSE t.right[n]
    /\ t.left[n] = Nil \/ t.right[n] = Nil
    /\ c # Nil => t.parent[c] = n

\* C31: while the fixup of delete runs, and when replaceNode(dnode, child)
\* is about to run after it, dnode is still attached to the tree, the fixup
\* is at dnode or at an ancestor of it, and child is still the only child
\* dnode can have.
C31_FixupBeforeSplice ==
    pc \in DeleteFixup \cup {"deleteReplace"} =>
        /\ attached(T, dnode)
        /\ onlyChild(T, dnode, child)
        /\ pc \in DeleteFixup => cur \in upFrom(T, dnode, NumAddr)

\* replaceNode is about to run on a dnode that has a child, after a fixup
\* that rotated.
C31_Witness ==
    /\ pc = "deleteReplace"
    /\ child # Nil
    /\ rot >= 1

\* The fields of n are in u what they are in t.
sameNode(t, u, n) ==
    /\ u.elem[n] = t.elem[n]
    /\ u.red[n] = t.red[n]
    /\ u.left[n] = t.left[n]
    /\ u.right[n] = t.right[n]

\* C32: deleteCase2 hands the node it was called on, unchanged and under
\* the same parent, to deleteCase3, and the node then has a sibling, which
\* is black.  Where the sibling was red, the old sibling is now black and the
\* parent of the parent, which is red, and the new sibling is a node that
\* was a child of the old one; where it was not, nothing has changed.
C32_Case2HandsBlackSibling ==
    [][pc = "deleteCase2" =>
           LET p == T.parent[cur]
               s == sibling(T, cur)
           IN  /\ pc' = "deleteCase3"
               /\ cur' = cur
               /\ sameNode(T, T', cur)
               /\ T'.parent[cur] = p
               /\ sibling(T', cur) # Nil
               /\ ~isRed(T', sibling(T', cur))
               /\ IF isRed(T, s) THEN
                      /\ T.parent[sibling(T', cur)] = s
                      /\ T'.parent[p] = s
                      /\ isRed(T', p)
                      /\ ~isRed(T', s)
                  ELSE T' = T]_vars

\* deleteCase3 is entered after deleteCase2 has rotated.
C32_Witness ==
    /\ pc = "deleteCase3"
    /\ rot = 1

\* The child of the sibling of n on the side away from n.
farChild(t, n) ==
    IF n = t.left[t.parent[n]] THEN t.right[sibling(t, n)] ELSE t.left[sibling(t, n)]

\* The child of the sibling of n on the side of n.
nearChild(t, n) ==
    IF n = t.left[t.parent[n]] THEN t.left[sibling(t, n)] ELSE t.right[sibling(t, n)]

\* rotateLeft(n) reads n.right and its fields, rotateRight(n) n.left.
canRotateLeft(t, n) == n # Nil /\ t.right[n] # Nil
canRotateRight(t, n) == n # Nil /\ t.left[n] # Nil

\* The rotation the case body at pc is about to do, if any, is of a node
\* that has the child the rotation lifts.
rotationHasChild ==
    LET p == T.parent[cur]
        s == sibling(T, cur)
        isLeft == cur = T.left[p]
    IN  /\ pc = "deleteCase2" /\ isRed(T, s) =>
               IF isLeft THEN canRotateLeft(T, p) ELSE canRotateRight(T, p)
        /\ pc = "deleteCase5" /\ ~isRed(T, s) /\ isRed(T, nearChild(T, cur))
                              /\ ~isRed(T, farChild(T, cur)) =>
               IF isLeft THEN canRotateRight(T, s) ELSE canRotateLeft(T, s)
        /\ pc = "deleteCase6" =>
               IF isLeft THEN canRotateLeft(T, p) ELSE canRotateRight(T, p)

\* C33: in the fixup of delete the node a case body is called on is never
\* absent and, from deleteCase2 on, has a parent; in deleteCase3 to
\* deleteCase6 it has a sibling; in deleteCase6 the child of the sibling on
\* the far side is present and red; and a rotation is of a node that has
\* the child it lifts.
C33_FixupReadsNodes ==
    pc \in DeleteFixup =>
        /\ cur # Nil
        /\ pc # "deleteCase1" => T.parent[cur] # Nil
        /\ pc \in {"deleteCase3", "deleteCase4", "deleteCase5", "deleteCase6"} =>
               sibling(T, cur) # Nil
        /\ pc = "deleteCase6" =>
               farChild(T, cur) # Nil /\ isRed(T, farChild(T, cur))
        /\ pc # "deleteCase1" => rotationHasChild

\* deleteCase6 is entered after deleteCase2 and deleteCase5 have rotated.
C33_Witness ==
    /\ pc = "deleteCase6"
    /\ rot = 2

\* A visit of the fixup to a node that has a parent is over and did not go
\* on to the parent: replaceNode is next.
visitOver == pc = "deleteReplace" /\ visit.nonroot

\* The case bodies that can change the tree in one visit that does not go
\* on to the parent: deleteCase4 or deleteCase6 ends it, deleteCase2 may
\* come before either and deleteCase5 before deleteCase6.
VisitsThatEnd ==
    {{"deleteCase4"}, {"deleteCase2", "deleteCase4"},
     {"deleteCase6"}, {"deleteCase2", "deleteCase6"},
     {"deleteCase5", "deleteCase6"}, {"deleteCase2", "deleteCase5", "deleteCase6"}}

\* C34, as stated: in a visit of the fixup of delete to a node with a
\* parent that does not go on to the parent through deleteCase3, exactly
\* one of deleteCase2..deleteCase6 changes the tree.
C34_ExactlyOneCaseFires == visitOver => Cardinality(visit.fired) = 1

\* C34, amended: in such a visit exactly one of deleteCase4 and deleteCase6
\* changes the tree, and it is the last to do so; deleteCase2 may have
\* changed it before, deleteCase5 only before deleteCase6, and deleteCase3
\* has not.
C34_CasesOfAVisit == visitOver => visit.fired \in VisitsThatEnd

\* A visit in which deleteCase2, deleteCase5 and deleteCase6 changed the
\* tree is over.
C34_Witness ==
    /\ visitOver
    /\ visit.fired = {"deleteCase2", "deleteCase5", "deleteCase6"}

\* What is called next from each case body of the fixup of delete;
\* deleteReplace is what delete does when deleteCase1 has returned to it.
DeleteFixupOrder ==
    [deleteCase1 |-> {"deleteCase2", "deleteReplace"},
     deleteCase2 |-> {"deleteCase3"},
     deleteCase3 |-> {"deleteCase1", "deleteCase4"},
     deleteCase4 |-> {"deleteCase5", "deleteReplace"},
     deleteCase5 |-> {"deleteCase6"},
     deleteCase6 |-> {"deleteReplace"}]

\* One step of the fixup of delete: it goes on as DeleteFixupOrder says; a
\* step back to deleteCase1 comes from deleteCase3 and takes the fixup to
\* the parent, one link nearer to the root; deleteCase1 returns when the
\* node has no parent and only then; deleteCase4 returns when it has
\* changed the tree.
deleteFixupStep ==
    pc \in DOMAIN DeleteFixupOrder =>
        /\ pc' \in DeleteFixupOrder[pc]
        /\ pc' = "deleteCase1" =>
               /\ pc = "deleteCase3"
               /\ cur' = T.parent[cur]
               /\ cur' # Nil
               /\ depth(T', cur') = depth(T, cur) - 1
        /\ pc = "deleteCase1" => (pc' = "deleteReplace" <=> T.parent[cur] = Nil)
        /\ pc = "deleteCase4" => (pc' = "deleteReplace" <=> T' # T)
        /\ pc' # "deleteCase1" /\ pc' # "deleteReplace" => cur' = cur

\* C35: the fixup of delete ends: its case bodies follow one another in
\* the order 1, 2, 3, 4, 5, 6 but for deleteCase3, which may call
\* deleteCase1 on the parent of its node, one link nearer to the root;
\* deleteCase1 returns at the root, deleteCase4 when its condition holds,
\* and deleteCase6 always; and a fixup that has begun reaches the
\* replaceNode that follows it in delete.
C35_DeleteFixupTerminates ==
    /\ [][deleteFixupStep]_vars
    /\ (pc \in DeleteFixup) ~> (pc = "deleteReplace")

\* The fixup has been entered again, on the parent of dnode, and the
\* parent is not the root.
C35_Witness ==
    /\ pc = "deleteCase1"
    /\ cur # dnode
    /\ T.parent[cur] # Nil

\* The case bodies of the fixup of delete that rotate when they change the
\* tree.
DeleteRotators == {"deleteCase2", "deleteCase5", "deleteCase6"}

\* C36: Remove rotates three times at most, at any point of the call and
\* when it has returned: the rotations are those of deleteCase2, deleteCase5
\* and deleteCase6 in the last visit of the fixup, one each, for when
\* deleteCase3 takes the fixup up to the parent nothing has been rotated.
C36_RemoveRotatesThriceAtMost ==
    op = "Remove" =>
        /\ rot <= 3
        /\ pc # "idle" => rot = Cardinality(visit.fired \cap DeleteRotators)
        /\ "deleteCase3" \in visit.fired => rot = 0

\* A Remove that rotated three times has returned.
C36_Witness ==
    /\ Returned("Remove")
    /\ rot = 3

\* The links of l agree: size counts the nodes from first along next, first
\* has no predecessor, last is the node the chain ends with and has no
\* successor, a node is the predecessor of its successor, and first and
\* last are each absent exactly when size is 0.
wellLinked(l) ==
    LET c == chain(l) IN
    /\ l.size = Len(c)
    /\ (l.first = Nil) <=> (l.size = 0)
    /\ (l.last = Nil) <=> (l.size = 0)
    /\ l.first # Nil => l.prev[l.first] = Nil
    /\ l.last # Nil => l.next[l.last] = Nil /\ l.last = c[Len(c)]
    /\ \A i \in 1..Len(c) : l.next[c[i]] # Nil => l.prev[l.next[c[i]]] = c[i]

\* C37: whatever calls of AddFirst, AddLast, RemoveFirst, RemoveLast, Remove
\* and Set (and Get) have been made on the list one after the other, its
\* links agree.
C37_ListWellLinked == wellLinked(L)

\* Remove(V) has taken a node out of the middle of a list of three.
C37_Witness ==
    /\ caller.op = "Remove"
    /\ caller.ret = Out("nil")
    /\ caller.pre.size = 3
    /\ caller.pre.Value[1] # caller.V
    /\ caller.pre.Value[2] = caller.V
    /\ L.size = 2
====
